---- MODULE Spec2Model ----
(***************************************************************************)
(* A model of network-shapley-rs: the pipeline of network_shapley          *)
(* (validation, link consolidation, LP tags, coalition solves, uptime      *)
(* reweighting, Shapley aggregation).                                       *)
(*                                                                         *)
(* Conventions                                                             *)
(*  - Strings are sequences of byte codes ("0" is <<48>>), so that the     *)
(*    byte-wise ordering of Rust's String and the slicing s[..3] are what  *)
(*    the code does.                                                       *)
(*  - An f64 is a triple <<kind, num, den>>: kind 0 is the finite value    *)
(*    num/den in lowest terms (den > 0), 1 is -inf, 2 is +inf, 3 is NaN.   *)
(*    Finite arithmetic is exact (rounding error of f64 is not modelled);  *)
(*    infinities and NaN follow IEEE 754.                                  *)
(*  - A Decimal rounded to 4 places is an integer count of 1/10000.        *)
(*  - The LP solver (clarabel) is a black box: its outcome on a coalition  *)
(*    is read from an oracle that is part of the input.                    *)
(***************************************************************************)
EXTENDS Integers, Sequences, FiniteSets, TLC

VARIABLES
    pc,             \* position in the function being run
    private_links,  \* input: Vec<Link>
    public_links,   \* input: Vec<Link>
    demand,         \* input: Vec<Demand>
    operator_uptime,\* input: Decimal
    hybrid_penalty, \* input: Decimal
    demand_multiplier, \* input: Decimal
    oracle,         \* the solver and the random generator (black boxes)
    operators,      \* enumerate_operators' result
    bitmap,         \* generate_coalition_bitmap's result (its shape)
    private_df,     \* prepare_private_links' result
    public_df,      \* prepare_public_links' result
    helper_df,      \* generate_helper_links' result
    full_map,       \* merge_link_components' result
    primitives,     \* lp_primitives' result
    svalue,         \* coalition values
    size,           \* coalition sizes
    lp_solved,      \* coalitions solve_single_coalition was called for
    lp_handed,      \* per such coalition, the LP the solver was given
    par_results,    \* the Vec the parallel iterator collects into, one
                    \* position per item, <<>> until its worker has finished
    evalue,         \* expected values
    shapley,        \* calculate_shapley_values' unrounded Shapley values
    result          \* what the function returned

vars == <<pc, private_links, public_links, demand, operator_uptime,
          hybrid_penalty, demand_multiplier, oracle,
          operators, bitmap, private_df, public_df, helper_df, full_map,
          primitives, svalue, size, lp_solved, lp_handed, par_results, evalue,
          shapley, result>>

\* the arguments of network_shapley
inputs == <<private_links, public_links, demand, operator_uptime,
            hybrid_penalty, demand_multiplier>>

\* the locals of consolidate_map
consolidated == <<private_df, public_df, helper_df, full_map>>

\* what solve_coalition_values leaves
solved == <<oracle, svalue, size, lp_solved, lp_handed, par_results>>

----------------------------------------------------------------------------
(* Bounds of the model *)

\* largest operator count whose value vectors are enumerated
NOps == 3
\* a coalition's value is changed by -1 .. MaxVal (or to -inf)
MaxVal == 2
\* at most this many coalitions have a value changed from the base game
MaxSupport == 1

\* the private link lists have at most this many links
MaxPrivLinks == 2
\* the coalition whose solve the oracle lets fail is one of 0 .. MaxFailing
MaxFailing == 1

----------------------------------------------------------------------------
(* Constants of the program *)

\* validate_operator_names: unique_ops.len() > 15
MaxOperators == 15
\* solve_coalition_values: operators.len() >= 10 takes the sampled path
SamplingThreshold == 10
\* solve_coalition_values_sampled: StdRng::seed_from_u64(42 + coalition_size)
SeedBase == 42

----------------------------------------------------------------------------
(* Integer helpers *)

RECURSIVE Pow(_, _)
Pow(b, e) == IF e = 0 THEN 1 ELSE b * Pow(b, e - 1)

RECURSIVE GCD(_, _)
GCD(a, b) == IF b = 0 THEN a ELSE GCD(b, a % b)

Abs(x) == IF x < 0 THEN -x ELSE x

Min(a, b) == IF a < b THEN a ELSE b

\* (c >> i) & 1
Bit(c, i) == (c \div Pow(2, i)) % 2

\* (j & i) == j, for masks below 2^n
IsSubmask(j, i, n) == \A b \in 0..(n - 1) : Bit(j, b) = 1 => Bit(i, b) = 1

PopCount(c, n) == Cardinality({b \in 0..(n - 1) : Bit(c, b) = 1})

RECURSIVE SumSeq(_)
SumSeq(s) == IF s = <<>> THEN 0 ELSE Head(s) + SumSeq(Tail(s))

----------------------------------------------------------------------------
(* f64 *)

Fin(n, d) ==
    LET g == GCD(Abs(n), d)
    IN  <<0, n \div g, d \div g>>

FInt(n) == <<0, n, 1>>
NegInf == <<1, 0, 1>>
PosInf == <<2, 0, 1>>
NaN == <<3, 0, 1>>

IsFinite(x) == x[1] = 0
IsNaN(x) == x[1] = 3
FSign(x) ==
    CASE x[1] = 1 -> -1
      [] x[1] = 2 -> 1
      [] x[1] = 0 -> (IF x[2] > 0 THEN 1 ELSE IF x[2] < 0 THEN -1 ELSE 0)
      [] OTHER -> 0

FNeg(x) ==
    CASE x[1] = 0 -> <<0, -x[2], x[3]>>
      [] x[1] = 1 -> PosInf
      [] x[1] = 2 -> NegInf
      [] OTHER -> NaN

FAdd(x, y) ==
    CASE IsNaN(x) \/ IsNaN(y) -> NaN
      [] IsFinite(x) /\ IsFinite(y) ->
            \* over the least common denominator
            LET g == GCD(x[3], y[3])
            IN  Fin(x[2] * (y[3] \div g) + y[2] * (x[3] \div g),
                    x[3] * (y[3] \div g))
      [] IsFinite(x) -> y
      [] IsFinite(y) -> x
      [] x[1] = y[1] -> x
      [] OTHER -> NaN

FSub(x, y) == FAdd(x, FNeg(y))

FMul(x, y) ==
    CASE IsNaN(x) \/ IsNaN(y) -> NaN
      [] IsFinite(x) /\ IsFinite(y) -> Fin(x[2] * y[2], x[3] * y[3])
      [] FSign(x) * FSign(y) = 0 -> NaN
      [] FSign(x) * FSign(y) > 0 -> PosInf
      [] OTHER -> NegInf

\* x / y for y > 0 (finite or +inf)
FDiv(x, y) ==
    CASE IsNaN(x) \/ IsNaN(y) -> NaN
      [] IsFinite(x) /\ IsFinite(y) -> Fin(x[2] * y[3], x[3] * y[2])
      [] IsFinite(x) -> FInt(0)
      [] IsFinite(y) -> x
      [] OTHER -> NaN

\* x > y; false when either is NaN
FGt(x, y) ==
    /\ ~IsNaN(x)
    /\ ~IsNaN(y)
    /\ CASE IsFinite(x) /\ IsFinite(y) -> x[2] * y[3] > y[2] * x[3]
         [] x[1] = 2 -> y[1] # 2
         [] y[1] = 1 -> x[1] # 1
         [] OTHER -> FALSE

\* f64::max: the other argument when one is NaN
FMax(x, y) ==
    CASE IsNaN(x) -> y
      [] IsNaN(y) -> x
      [] FGt(y, x) -> y
      [] OTHER -> x

RECURSIVE FSumRange(_, _, _)
\* s[lo] + ... + s[hi] (the order of the additions does not change the
\* sum: the finite values are exact, and an infinity or a NaN among the
\* terms decides the sum in any order)
FSumRange(s, lo, hi) ==
    IF lo > hi THEN FInt(0)
    ELSE IF lo = hi THEN s[lo]
    ELSE LET mid == (lo + hi) \div 2
         IN  FAdd(FSumRange(s, lo, mid), FSumRange(s, mid + 1, hi))

\* iter().sum() of a sequence of f64
FSumSeq(s) == FSumRange(s, 1, Len(s))

----------------------------------------------------------------------------
(* Decimal output (types.rs re-exports f64_to_decimal and round_decimal;   *)
(* their bodies are not in the source tree)                                *)

\* num/den (den > 0) rounded to the nearest integer, ties to even
RoundHalfEven(num, den) ==
    LET q == num \div den
        r == num - q * den
    IN  IF 2 * r < den THEN q
        ELSE IF 2 * r > den THEN q + 1
        ELSE IF q % 2 = 0 THEN q ELSE q + 1

\* decimal_to_f64: a Decimal of 4 places (a count of 1/10000) as an f64
decimal_to_f64(d) == Fin(d, 10000)

\* f64_to_decimal: the value as a fraction <<num, den>>; a value that has no
\* decimal form (an infinity, NaN) becomes 0
f64_to_decimal(x) == IF IsFinite(x) THEN <<x[2], x[3]>> ELSE <<0, 1>>

\* round_decimal: to 4 places, ties to even; the result in units of 1/10000
round_decimal(d) == RoundHalfEven(10000 * d[1], d[2])

----------------------------------------------------------------------------
(* coalition_computation.rs: reweighting and aggregation *)

RECURSIVE factorial(_)
factorial(n) == IF n <= 1 THEN 1 ELSE n * factorial(n - 1)

NCoal(n) == Pow(2, n)

Coalitions(n) == 0..(NCoal(n) - 1)

\* build_submask: submask[i][j] = 1 iff j <= i and (j & i) == j
build_submask(n) ==
    [i \in Coalitions(n) |->
        [j \in Coalitions(n) |-> IF j <= i /\ IsSubmask(j, i, n) THEN 1 ELSE 0]]

\* One round of build_coefficient_matrix's loop on the triplet list
\* (a sequence of <<row, col, val>>), for block size sz
CoefStep(triplets, sz) ==
    triplets
    \o [k \in 1..Len(triplets) |->
          <<triplets[k][1] + sz, triplets[k][2], -triplets[k][3]>>]
    \o [j \in 1..sz |-> <<(j - 1) + sz, j - 1, -1>>]
    \o [k \in 1..Len(triplets) |->
          <<triplets[k][1] + sz, triplets[k][2] + sz, triplets[k][3]>>]

RECURSIVE CoefTriplets(_)
CoefTriplets(i) ==
    IF i = 0 THEN <<>> ELSE CoefStep(CoefTriplets(i - 1), Pow(2, i - 1))

\* build_coefficient_matrix(n).to_dense(): triplets at one place add up
build_coefficient_matrix(n) ==
    LET t == CoefTriplets(n)
    IN  [r \in Coalitions(n) |->
            [c \in Coalitions(n) |->
                SumSeq([k \in 1..Len(t) |->
                    IF t[k][1] = r /\ t[k][2] = c THEN t[k][3] ELSE 0])]]

\* operator_uptime.powi(s), for a finite uptime u
PowI(u, s) == Fin(Pow(u[2], s), Pow(u[3], s))

\* dot product of a matrix row (f64 entries) with a column (f64 entries)
FDot(row, col, n) ==
    FSumSeq([k \in 1..NCoal(n) |-> FMul(row[k - 1], col[k - 1])])

\* `part` without the correction term: u^|T| for every T inside S
PartMatrixWithoutTerm(sz, u, n) ==
    [r \in Coalitions(n) |-> [c \in Coalitions(n) |->
        FMul(PowI(u, sz[c]), FInt(build_submask(n)[r][c]))]]

\* The matrix `part` of compute_expected_values
PartMatrix(sz, u, n) ==
    LET C == Coalitions(n)
        submask == build_submask(n)
        base_p == [i \in C |-> PowI(u, sz[i])]
        bp_masked == [r \in C |-> [c \in C |-> FMul(base_p[c], FInt(submask[r][c]))]]
        coef_mat == build_coefficient_matrix(n)
        coef_times_submask ==
            [c \in C |-> [r \in C |-> FInt(coef_mat[r][c] * submask[r][c])]]
        term == [r \in C |-> [c \in C |-> FDot(bp_masked[r], coef_times_submask[c], n)]]
    IN  [r \in C |-> [c \in C |->
            FMul(FAdd(bp_masked[r][c], term[r][c]), FInt(submask[r][c]))]]

PopSizes(n) == [c \in Coalitions(n) |-> PopCount(c, n)]

\* the operator uptimes of the inputs: 1, 0.5, 0.75
Uptimes == {10000, 5000, 7500}

\* `part` for the sizes and uptimes the model's inputs have, computed once
PartTable ==
    [n \in 0..NOps |->
        [u \in {decimal_to_f64(d) : d \in Uptimes} |->
            PartMatrix(PopSizes(n), u, n)]]

\* compute_expected_values: evalue = part * svalue, then evalue[0] = svalue[0]
compute_expected_values(sv, sz, u, n) ==
    LET part == IF n <= NOps /\ u \in DOMAIN PartTable[0] /\ sz = PopSizes(n)
                THEN PartTable[n][u]
                ELSE PartMatrix(sz, u, n)
    IN  [i \in Coalitions(n) |-> IF i = 0 THEN sv[0] ELSE FDot(part[i], sv, n)]

RECURSIVE SortedSeq(_)
\* the elements of a finite set of integers in ascending order
SortedSeq(S) ==
    IF S = {} THEN <<>>
    ELSE LET m == CHOOSE x \in S : \A y \in S : x <= y
         IN  <<m>> \o SortedSeq(S \ {m})

\* Whether every weight lookup factorials[s - 1], factorials[n_ops - s] of
\* calculate_shapley_values stays in the table (it panics otherwise)
WeightsInTable(sz, n) ==
    \A k \in 0..(n - 1) : \A i \in Coalitions(n) :
        Bit(i, k) = 1 => (sz[i] >= 1 /\ sz[i] <= n)

\* The operators' loop with every coalition weighted 1 / 2^(n-1) instead of
\* (s-1)! (n-s)! / n!
ShapleyContributionsEvenWeights(ev, sz, n) ==
    LET with_op(k) == SortedSeq({i \in Coalitions(n) : Bit(i, k) = 1})
        contribution(k) ==
            LET w == with_op(k)
            IN  FSumSeq([j \in 1..Len(w) |->
                    FMul(Fin(1, Pow(2, n - 1)),
                         FSub(ev[w[j]], ev[w[j] - Pow(2, k)]))])
    IN  [k \in 0..(n - 1) |-> contribution(k)]

\* The operators' loop with every coalition compared with the empty
\* coalition instead of the coalition without the operator
ShapleyContributionsAgainstEmpty(ev, sz, n) ==
    LET with_op(k) == SortedSeq({i \in Coalitions(n) : Bit(i, k) = 1})
        weight(i) ==
            Fin(factorial(sz[i] - 1) * factorial(n - sz[i]), factorial(n))
        contribution(k) ==
            LET w == with_op(k)
            IN  FSumSeq([j \in 1..Len(w) |->
                    FMul(weight(w[j]), FSub(ev[w[j]], ev[0]))])
    IN  [k \in 0..(n - 1) |-> contribution(k)]

\* The loop of calculate_shapley_values over the operators: the unrounded
\* Shapley values
ShapleyContributions(ev, sz, n) ==
    LET with_op(k) == SortedSeq({i \in Coalitions(n) : Bit(i, k) = 1})
        weight(i) ==
            Fin(factorial(sz[i] - 1) * factorial(n - sz[i]), factorial(n))
        contribution(k) ==
            LET w == with_op(k)
            IN  FSumSeq([j \in 1..Len(w) |->
                    FMul(weight(w[j]), FSub(ev[w[j]], ev[w[j] - Pow(2, k)]))])
    IN  [k \in 0..(n - 1) |-> contribution(k)]

\* The conversion to percentages without the clipping at 0
PercentagesNoClip(sh, n) ==
    LET total == FSumSeq([i \in 1..n |-> FMax(sh[i - 1], FInt(0))])
    IN  IF FGt(total, FInt(0))
        THEN [i \in 0..(n - 1) |-> FDiv(sh[i], total)]
        ELSE sh

\* "Convert to percentages": clip at 0, divide by the total when positive
Percentages(sh, n) ==
    LET clipped == [i \in 0..(n - 1) |-> FMax(sh[i], FInt(0))]
        total == FSumSeq([i \in 1..n |-> clipped[i - 1]])
    IN  IF FGt(total, FInt(0))
        THEN [i \in 0..(n - 1) |-> FDiv(clipped[i], total)]
        ELSE clipped

\* "Build result": one ShapleyValue per operator, in the operators' order
BuildResults(ops, sh, percent) ==
    [i \in 1..Len(ops) |->
        [operator |-> ops[i],
         value |-> round_decimal(f64_to_decimal(sh[i - 1])),
         percent |-> round_decimal(f64_to_decimal(percent[i - 1]))]]

----------------------------------------------------------------------------
(* shapley.rs: the reweighting and aggregation of Shapley::compute.  A     *)
(* coalition value None is held as -inf, as unwrap_or(NEG_INFINITY) makes  *)
(* it.                                                                     *)

\* shapley.rs compute_expected_values: the same matrix `part`; the sum of a
\* row skips the values that are not finite, and evalue[0] is svalue[0]
\* when that is finite
Shapley_compute_expected_values(sv, n, u) ==
    LET part == IF n <= NOps /\ u \in DOMAIN PartTable[0]
                THEN PartTable[n][u]
                ELSE PartMatrix(PopSizes(n), u, n)
        row_sum(i) ==
            FSumSeq([j \in 1..NCoal(n) |->
                IF IsFinite(sv[j - 1]) THEN FMul(sv[j - 1], part[i][j - 1])
                ELSE FInt(0)])
    IN  [i \in Coalitions(n) |->
            IF i = 0 /\ IsFinite(sv[0]) THEN sv[0] ELSE row_sum(i)]

\* Shapley::compute, "Compute expected values with operator uptime": the
\* matrix computation below uptime 1, the coalition values themselves
\* otherwise
Shapley_expected_values(sv, n, u) ==
    IF FGt(FInt(1), u) THEN Shapley_compute_expected_values(sv, n, u) ELSE sv

\* shapley.rs compute_shapley_values: the weights from the bit count of the
\* coalition index
compute_shapley_values(coalition_values, n) ==
    LET with_op(k) == SortedSeq({i \in Coalitions(n) : Bit(i, k) = 1})
        weight(i) ==
            Fin(factorial(PopCount(i, n) - 1) * factorial(n - PopCount(i, n)),
                factorial(n))
        value(k) ==
            LET w == with_op(k)
            IN  FSumSeq([j \in 1..Len(w) |->
                    FMul(weight(w[j]),
                         FSub(coalition_values[w[j]],
                              coalition_values[w[j] - Pow(2, k)]))])
    IN  [k \in 0..(n - 1) |-> value(k)]

----------------------------------------------------------------------------
(* Strings *)

Digits == 48..57

\* "0", the reserved operator name
ZeroOp == <<48>>

\* s.chars().any(|c| c.is_ascii_digit())
has_digit(s) == \E i \in 1..Len(s) : s[i] \in Digits

RECURSIVE StrLess(_, _)
\* a < b in the byte-wise order of String
StrLess(a, b) ==
    IF a = <<>> THEN b # <<>>
    ELSE IF b = <<>> THEN FALSE
    ELSE IF a[1] # b[1] THEN a[1] < b[1]
    ELSE StrLess(Tail(a), Tail(b))

RECURSIVE SortStrings(_)
\* the strings of a finite set in ascending order (Vec::sort)
SortStrings(S) ==
    IF S = {} THEN <<>>
    ELSE LET m == CHOOSE x \in S : \A y \in S \ {x} : StrLess(x, y)
         IN  <<m>> \o SortStrings(S \ {m})

\* a sequence with its entries computed
Evaluated(s) == s \o <<>>

\* the elements of a sequence
Range(s) == {s[i] : i \in 1..Len(s)}

\* every order in which a HashSet's elements can be iterated
Orders(S) ==
    {q \in [1..Cardinality(S) -> S] : \A x \in S : \E i \in DOMAIN q : q[i] = x}

----------------------------------------------------------------------------
(* types.rs: links and demands. Decimal fields are counts of 1/10000. *)

\* LinkBuilder with its defaults
Link(start, end, cost, bandwidth, operator1, operator2, uptime, shared, link_type) ==
    [start |-> start, end |-> end, cost |-> cost, bandwidth |-> bandwidth,
     operator1 |-> operator1, operator2 |-> operator2, uptime |-> uptime,
     shared |-> shared, link_type |-> link_type]

Demand(start, end, traffic, demand_type) ==
    [start |-> start, end |-> end, traffic |-> traffic, demand_type |-> demand_type]

\* Decimal multiplication (exact for the values of this model, which have
\* at most 4 decimal places in the product)
DecMul(a, b) == (a * b) \div 10000

\* DemandMatrix::unique_types: the traffic types, sorted
unique_types(dm) == SortedSeq({dm[i].demand_type : i \in 1..Len(dm)})

----------------------------------------------------------------------------
(* validation.rs. A validation returns NoError or the error it raises.    *)

NoError == [kind |-> "None"]

validate_private_links(links) ==
    IF links = <<>> THEN [kind |-> "EmptyLinks", link_type |-> "private"]
    ELSE NoError

validate_public_links(links) ==
    IF links = <<>> THEN [kind |-> "EmptyLinks", link_type |-> "public"]
    ELSE NoError

validate_switch_naming(links, link_type) ==
    IF \E i \in 1..Len(links) : ~has_digit(links[i].start) \/ ~has_digit(links[i].end)
    THEN [kind |-> "InvalidSwitchNaming", link_type |-> link_type]
    ELSE NoError

validate_endpoint_naming(dm) ==
    IF \E i \in 1..Len(dm) : has_digit(dm[i].start) \/ has_digit(dm[i].end)
    THEN [kind |-> "InvalidEndpointNaming"]
    ELSE NoError

validate_traffic_types(dm) ==
    IF \E i, j \in 1..Len(dm) :
          dm[i].demand_type = dm[j].demand_type /\ dm[i].start # dm[j].start
    THEN [kind |-> "MultipleTrafficSources"]
    ELSE NoError

\* the switches of a link list
Switches(links) ==
    {links[i].start : i \in 1..Len(links)} \cup {links[i].end : i \in 1..Len(links)}

\* validate_public_pathway_coverage: private switches missing from the
\* public links
missing_switches(private, public) == Switches(private) \ Switches(public)

\* validate_public_pathway_coverage: switch[..3] of the public switches of
\* at least 3 bytes
public_cities(public) ==
    {SubSeq(sw, 1, 3) : sw \in {x \in Switches(public) : Len(x) >= 3}}

\* validate_public_pathway_coverage: demand cities without a public switch
missing_cities(public, dm) ==
    ({dm[i].start : i \in 1..Len(dm)} \cup {dm[i].end : i \in 1..Len(dm)})
        \ public_cities(public)

\* The coverage check with the demand points looked at before the switches
validate_public_pathway_coverage_cities_first(private, public, dm) ==
    IF missing_cities(public, dm) # {}
    THEN {[kind |-> "IncompletePublicPathway", location |-> "the demand points",
           missing |-> q] : q \in Orders(missing_cities(public, dm))}
    ELSE IF missing_switches(private, public) # {}
    THEN {[kind |-> "IncompletePublicPathway", location |-> "all the switches",
           missing |-> q] : q \in Orders(missing_switches(private, public))}
    ELSE {NoError}

\* validate_public_pathway_coverage: the errors it can return (the order of
\* `missing` is the iteration order of a HashSet), or {NoError}
validate_public_pathway_coverage(private, public, dm) ==
    IF missing_switches(private, public) # {}
    THEN {[kind |-> "IncompletePublicPathway", location |-> "all the switches",
           missing |-> q] : q \in Orders(missing_switches(private, public))}
    ELSE IF missing_cities(public, dm) # {}
    THEN {[kind |-> "IncompletePublicPathway", location |-> "the demand points",
           missing |-> q] : q \in Orders(missing_cities(public, dm))}
    ELSE {NoError}

\* The operator check with the limit reached one operator early
validate_operator_names_early(ops) ==
    IF \E i \in 1..Len(ops) : ops[i] = ZeroOp
    THEN [kind |-> "ReservedOperatorName"]
    ELSE IF Cardinality(Range(ops)) >= MaxOperators
    THEN [kind |-> "TooManyOperators"]
    ELSE NoError

\* validate_operator_names
validate_operator_names(ops) ==
    IF \E i \in 1..Len(ops) : ops[i] = ZeroOp
    THEN [kind |-> "ReservedOperatorName"]
    ELSE IF Cardinality(Range(ops)) > MaxOperators
    THEN [kind |-> "TooManyOperators"]
    ELSE NoError

----------------------------------------------------------------------------
(* coalition_computation.rs: operators and the coalition bitmap *)

\* The enumeration with operator2 left out
enumerate_operators_first_only(links) ==
    SortStrings(
        {links[i].operator1 : i \in {j \in 1..Len(links) : links[j].operator1 # ZeroOp}})

\* enumerate_operators: the names other than "0" among operator1 and
\* operator2, sorted
enumerate_operators(links) ==
    SortStrings(
        {links[i].operator1 : i \in {j \in 1..Len(links) : links[j].operator1 # ZeroOp}}
        \cup
        {links[i].operator2 : i \in {j \in 1..Len(links) : links[j].operator2 # ZeroOp}})

\* generate_coalition_bitmap: the matrix is kept as its shape, its entry
\* (row, col) being Bit(col, row)
generate_coalition_bitmap(n) == [nrows |-> n, ncols |-> Pow(2, n)]

\* no bitmap built yet
NoBitmap == [nrows |-> 0, ncols |-> 0]

----------------------------------------------------------------------------
(* link_preparation.rs *)

\* the largest shared id above 0, or 0
MaxShared(links) ==
    LET ids == {x \in {links[i].shared : i \in 1..Len(links)} : x > 0}
    IN  IF ids = {} THEN 0 ELSE CHOOSE m \in ids : \A x \in ids : x <= m

\* compact_shared_ids: links without a shared id that have an operator get
\* fresh ids above the largest, then the ids in use are renumbered 1, 2, ...
\* in ascending order
compact_shared_ids(links) ==
    LET max_shared == MaxShared(links)
        unassigned(i) == links[i].shared = 0 /\ links[i].operator1 # ZeroOp
        assigned ==
            [i \in 1..Len(links) |->
                IF unassigned(i)
                THEN [links[i] EXCEPT !.shared =
                        max_shared + Cardinality({j \in 1..i : unassigned(j)})]
                ELSE links[i]]
        unique_shared == {assigned[i].shared : i \in 1..Len(links)} \ {0}
        mapping(old) == Cardinality({x \in unique_shared : x <= old})
    IN  [i \in 1..Len(links) |->
            IF assigned[i].shared > 0
            THEN [assigned[i] EXCEPT !.shared = mapping(assigned[i].shared)]
            ELSE assigned[i]]

\* The copies without the uptime applied to the bandwidth and with the
\* second operator left as given
prepare_private_links_as_given(links) ==
    LET max_shared == MaxShared(links)
        reverse(l) ==
            [l EXCEPT !.start = l.end, !.end = l.start, !.link_type = 0,
                      !.shared = IF l.shared > 0 THEN l.shared + max_shared ELSE l.shared]
    IN  compact_shared_ids(
            [k \in 1..(2 * Len(links)) |->
                IF k % 2 = 1 THEN [links[(k + 1) \div 2] EXCEPT !.link_type = 0]
                ELSE reverse(links[k \div 2])])

\* prepare_private_links
prepare_private_links(links) ==
    LET filled ==
            [i \in 1..Len(links) |->
                IF links[i].operator2 = ZeroOp \/ links[i].operator2 = <<>>
                THEN [links[i] EXCEPT !.operator2 = links[i].operator1]
                ELSE links[i]]
        max_shared == MaxShared(filled)
        forward(l) ==
            [l EXCEPT !.bandwidth = DecMul(l.bandwidth, l.uptime), !.link_type = 0]
        reverse(l) ==
            [l EXCEPT !.start = l.end, !.end = l.start,
                      !.bandwidth = DecMul(l.bandwidth, l.uptime),
                      !.link_type = 0,
                      !.shared = IF l.shared > 0 THEN l.shared + max_shared ELSE l.shared]
        all_links ==
            [k \in 1..(2 * Len(filled)) |->
                IF k % 2 = 1 THEN forward(filled[(k + 1) \div 2])
                ELSE reverse(filled[k \div 2])]
    IN  compact_shared_ids(all_links)

\* prepare_public_links
prepare_public_links(links) ==
    [k \in 1..(2 * Len(links)) |->
        IF k % 2 = 1
        THEN [links[(k + 1) \div 2] EXCEPT !.link_type = 0]
        ELSE LET l == links[k \div 2]
             IN  [l EXCEPT !.start = l.end, !.end = l.start, !.link_type = 0]]

\* s[..3]
Prefix3(s) == SubSeq(s, 1, 3)

\* The direct paths with the cost of the first public link of each city pair
find_direct_paths_first_cost(public, src_city, dst_cities, traffic_type) ==
    LET hits == {i \in 1..Len(public) :
                    /\ Len(public[i].start) >= 3
                    /\ Len(public[i].end) >= 3
                    /\ Prefix3(public[i].start) = src_city
                    /\ Prefix3(public[i].end) \in dst_cities}
        keys == {<<Prefix3(public[i].start), Prefix3(public[i].end)>> : i \in hits}
        first(k) == CHOOSE i \in hits :
                      /\ <<Prefix3(public[i].start), Prefix3(public[i].end)>> = k
                      /\ \A j \in hits :
                            <<Prefix3(public[j].start), Prefix3(public[j].end)>> = k => i <= j
    IN  {[j \in 1..Len(q) |->
            Link(q[j][1], q[j][2], public[first(q[j])].cost, 0, ZeroOp, ZeroOp, 10000, 0,
                 traffic_type)] : q \in Orders(keys)}

\* find_direct_paths: the cheapest public link per (source city,
\* destination city), in the iteration orders of the HashMap
find_direct_paths(public, src_city, dst_cities, traffic_type) ==
    LET hits == {i \in 1..Len(public) :
                    /\ Len(public[i].start) >= 3
                    /\ Len(public[i].end) >= 3
                    /\ Prefix3(public[i].start) = src_city
                    /\ Prefix3(public[i].end) \in dst_cities}
        keys == {<<Prefix3(public[i].start), Prefix3(public[i].end)>> : i \in hits}
        costs(k) == {public[i].cost : i \in
                        {j \in hits : <<Prefix3(public[j].start), Prefix3(public[j].end)>> = k}}
        cheapest(k) == CHOOSE c \in costs(k) : \A d \in costs(k) : c <= d
    IN  {[j \in 1..Len(q) |->
            Link(q[j][1], q[j][2], cheapest(q[j]), 0, ZeroOp, ZeroOp, 10000, 0,
                 traffic_type)] : q \in Orders(keys)}

\* create_source_helpers: a free link from the source city to each of its
\* switches, in the iteration orders of the HashSet
create_source_helpers(public, src_city, traffic_type) ==
    LET src_switches == {public[i].start : i \in
                            {j \in 1..Len(public) :
                                /\ Len(public[j].start) >= 3
                                /\ Prefix3(public[j].start) = src_city}}
    IN  {[j \in 1..Len(q) |->
            Link(src_city, q[j], 0, 0, ZeroOp, ZeroOp, 10000, 0, traffic_type)] :
         q \in Orders(src_switches)}

\* create_destination_helpers: a free link to each destination city from
\* each of its switches, in the iteration orders of the HashSet
create_destination_helpers(public, dst_cities, traffic_type) ==
    LET dst_switches == {public[i].end : i \in
                            {j \in 1..Len(public) :
                                /\ Len(public[j].end) >= 3
                                /\ Prefix3(public[j].end) \in dst_cities}}
    IN  {[j \in 1..Len(q) |->
            Link(q[j], Prefix3(q[j]), 0, 0, ZeroOp, ZeroOp, 10000, 0, traffic_type)] :
         q \in Orders(dst_switches)}

\* generate_helper_links, the closure run for one traffic type
TypeHelpers(public, dm, traffic_type) ==
    LET type_demands == SelectSeq(dm, LAMBDA d : d.demand_type = traffic_type)
        src_city == type_demands[1].start
        dst_cities == {type_demands[i].end : i \in 1..Len(type_demands)}
    IN  {d \o a \o b :
            d \in find_direct_paths(public, src_city, dst_cities, traffic_type),
            a \in create_source_helpers(public, src_city, traffic_type),
            b \in create_destination_helpers(public, dst_cities, traffic_type)}

RECURSIVE HelperSeqs(_, _, _)
\* generate_helper_links: the per-type lists, flattened in the order of the
\* traffic types
HelperSeqs(public, dm, types) ==
    IF types = <<>> THEN {<<>>}
    ELSE {h \o r : h \in TypeHelpers(public, dm, Head(types)),
                   r \in HelperSeqs(public, dm, Tail(types))}

\* generate_helper_links: the lists it can return
generate_helper_links(public, dm) == HelperSeqs(public, dm, unique_types(dm))

\* merge_link_components
merge_link_components(private, public, helper, penalty) ==
    private
    \o [i \in 1..Len(public) |->
          [public[i] EXCEPT !.cost = public[i].cost + penalty, !.bandwidth = 0,
                            !.operator1 = ZeroOp, !.operator2 = ZeroOp,
                            !.uptime = 10000, !.shared = 0]]
    \o [i \in 1..Len(helper) |->
          [helper[i] EXCEPT !.bandwidth = 0, !.operator1 = ZeroOp,
                            !.operator2 = ZeroOp, !.uptime = 10000, !.shared = 0]]

----------------------------------------------------------------------------
(* lp_construction.rs. A sparse matrix is kept as its shape and its dense  *)
(* entries val[row][col] (0-based, integers: the entries are 0, 1, -1 and  *)
(* sums of them).                                                          *)

Matrix(nrows, ncols, f) ==
    [nrows |-> nrows, ncols |-> ncols,
     val |-> [r \in 0..(nrows - 1) |-> [c \in 0..(ncols - 1) |-> f[r, c]]]]

\* build_node_index: the nodes of the links and the demands, sorted
build_node_index(link_map, dm) ==
    SortStrings(Switches(link_map)
                \cup {dm[i].start : i \in 1..Len(dm)}
                \cup {dm[i].end : i \in 1..Len(dm)})

\* node_idx[name]
NodeIdx(nodes, name) == (CHOOSE i \in 1..Len(nodes) : nodes[i] = name) - 1

\* build_single_commodity_matrix: +1 at a link's start, -1 at its end
build_single_commodity_matrix(link_map, nodes) ==
    Matrix(Len(nodes), Len(link_map),
           [r \in 0..(Len(nodes) - 1), j \in 0..(Len(link_map) - 1) |->
               (IF NodeIdx(nodes, link_map[j + 1].start) = r THEN 1 ELSE 0)
               + (IF NodeIdx(nodes, link_map[j + 1].end) = r THEN -1 ELSE 0)])

\* block_diagonal of k copies of m
block_diagonal(m, k) ==
    IF k = 0 THEN Matrix(0, 0, [r \in {}, c \in {} |-> 0])
    ELSE Matrix(k * m.nrows, k * m.ncols,
                [r \in 0..(k * m.nrows - 1), c \in 0..(k * m.ncols - 1) |->
                    IF m.nrows > 0 /\ m.ncols > 0 /\ r \div m.nrows = c \div m.ncols
                    THEN m.val[r % m.nrows][c % m.ncols]
                    ELSE 0])

\* horizontal_concat of k copies of m
horizontal_concat(m, k) ==
    IF k = 0 THEN Matrix(0, 0, [r \in {}, c \in {} |-> 0])
    ELSE Matrix(m.nrows, k * m.ncols,
                [r \in 0..(m.nrows - 1), c \in 0..(k * m.ncols - 1) |->
                    m.val[r][c % m.ncols]])

\* select_columns: the columns keep[1], keep[2], ... of m
select_columns(m, keep) ==
    Matrix(m.nrows, Len(keep),
           [r \in 0..(m.nrows - 1), c \in 0..(Len(keep) - 1) |->
               m.val[r][keep[c + 1]]])

\* get_valid_columns: per commodity, the links open to its traffic type
get_valid_columns(link_map, commodities, n_links) ==
    LET all == [i \in 1..(Len(commodities) * n_links) |-> i - 1]
        open(i) ==
            LET l == link_map[(i % n_links) + 1]
            IN  l.link_type = commodities[(i \div n_links) + 1] \/ l.link_type = 0
    IN  SelectSeq(all, open)

\* build_demand_vector: per commodity and node, traffic out minus traffic in
build_demand_vector(dm, nodes, commodities) ==
    [i \in 1..(Len(commodities) * Len(nodes)) |->
        LET t == commodities[((i - 1) \div Len(nodes)) + 1]
            node == nodes[((i - 1) % Len(nodes)) + 1]
            ofType == SelectSeq(dm, LAMBDA d : d.demand_type = t)
        IN  FSumSeq([j \in 1..Len(ofType) |->
                FAdd(IF ofType[j].start = node
                     THEN decimal_to_f64(ofType[j].traffic) ELSE FInt(0),
                     IF ofType[j].end = node
                     THEN FNeg(decimal_to_f64(ofType[j].traffic)) ELSE FInt(0))])]

\* the last of the first n_private links that has the shared id, or 0
LastWithShared(link_map, n_private, shared) ==
    LET is == {i \in 1..n_private : link_map[i].shared = shared}
    IN  IF is = {} THEN 0 ELSE CHOOSE i \in is : \A j \in is : j <= i

\* build_bandwidth_constraints: <<a_ub, b_ub>>
build_bandwidth_constraints(link_map, n_private, commodities, keep) ==
    IF n_private = 0 THEN <<Matrix(0, 0, [r \in {}, c \in {} |-> 0]), <<>>>>
    ELSE
    LET max_shared == MaxShared(SubSeq(link_map, 1, n_private))
        i_single ==
            Matrix(max_shared, Len(link_map),
                   [r \in 0..(max_shared - 1), c \in 0..(Len(link_map) - 1) |->
                       IF c < n_private /\ link_map[c + 1].shared = r + 1
                       THEN 1 ELSE 0])
        i_full == horizontal_concat(i_single, Len(commodities))
        capacity(shared) ==
            LET i == LastWithShared(link_map, n_private, shared)
            IN  IF i = 0 THEN FInt(0) ELSE decimal_to_f64(link_map[i].bandwidth)
    IN  <<select_columns(i_full, keep), [k \in 1..max_shared |-> capacity(k)]>>

\* extract_operator_indices
extract_operator_indices(link_map, n_private, commodities, keep) ==
    LET sorted_shared == SortedSeq({link_map[i].shared : i \in 1..n_private})
        tagged(k) == link_map[LastWithShared(link_map, n_private, sorted_shared[k])]
        n_links == Len(link_map)
    IN  [row_index1 |-> [k \in 1..Len(sorted_shared) |-> tagged(k).operator1],
         row_index2 |-> [k \in 1..Len(sorted_shared) |-> tagged(k).operator2],
         col_index1 |-> [k \in 1..Len(keep) |-> link_map[(keep[k] % n_links) + 1].operator1],
         col_index2 |-> [k \in 1..Len(keep) |-> link_map[(keep[k] % n_links) + 1].operator2]]

\* build_objective_coefficients
build_objective_coefficients(link_map, commodities, keep) ==
    [k \in 1..Len(keep) |-> decimal_to_f64(link_map[(keep[k] % Len(link_map)) + 1].cost)]

\* lp_primitives
lp_primitives(link_map, dm, multiplier) ==
    LET scaled_demand ==
            [i \in 1..Len(dm) |-> [dm[i] EXCEPT !.traffic = DecMul(dm[i].traffic, multiplier)]]
        n_private == Cardinality({i \in 1..Len(link_map) : link_map[i].operator1 # ZeroOp})
        nodes == build_node_index(link_map, scaled_demand)
        commodities == unique_types(scaled_demand)
        keep == get_valid_columns(link_map, commodities, Len(link_map))
        a_eq == select_columns(
                    block_diagonal(build_single_commodity_matrix(link_map, nodes),
                                   Len(commodities)),
                    keep)
        ub == build_bandwidth_constraints(link_map, n_private, commodities, keep)
        op_indices == extract_operator_indices(link_map, n_private, commodities, keep)
    IN  [a_eq |-> a_eq,
         a_ub |-> ub[1],
         b_eq |-> build_demand_vector(scaled_demand, nodes, commodities),
         b_ub |-> ub[2],
         cost |-> build_objective_coefficients(link_map, commodities, keep),
         row_index1 |-> op_indices.row_index1,
         row_index2 |-> op_indices.row_index2,
         col_index1 |-> op_indices.col_index1,
         col_index2 |-> op_indices.col_index2]

----------------------------------------------------------------------------
(* coalition_computation.rs: the coalition solves.                         *)
(* The solver and the random generator are black boxes read from `oracle`: *)
(*   game, base  the optimum the solver finds on a column selection        *)
(*   failing     coalitions on whose selection the solver does not end     *)
(*               with status Solved                                        *)
(*   rng         which index gen_range draws                               *)
(* An Option<f64> is <<>> (None) or <<v>> (Some(v)).                       *)

\* get_coalition_subset: the names of the operators in coalition idx
get_coalition_subset(ops, idx) ==
    SelectSeq(ops, LAMBDA op :
        Bit(idx, (CHOOSE i \in 1..Len(ops) : ops[i] = op) - 1) = 1)

\* The masks that let a row or a column in when either of its tags is valid
get_coalition_masks_either(subset, prim) ==
    LET valid_ops == {ZeroOp} \cup Range(subset)
    IN  <<[k \in 1..Len(prim.row_index1) |->
              prim.row_index1[k] \in valid_ops \/ prim.row_index2[k] \in valid_ops],
          [k \in 1..Len(prim.col_index1) |->
              prim.col_index1[k] \in valid_ops \/ prim.col_index2[k] \in valid_ops]>>

\* get_coalition_masks: <<row_mask, col_mask>>
get_coalition_masks(subset, prim) ==
    LET valid_ops == {ZeroOp} \cup Range(subset)
    IN  <<[k \in 1..Len(prim.row_index1) |->
              prim.row_index1[k] \in valid_ops /\ prim.row_index2[k] \in valid_ops],
          [k \in 1..Len(prim.col_index1) |->
              prim.col_index1[k] \in valid_ops /\ prim.col_index2[k] \in valid_ops]>>

\* solve_single_coalition, from the masks to the constraint rows: which
\* columns (variables), equality rows and bandwidth rows of the primitives
\* (0-based) make up the LP given to the solver
RestrictedLP(prim, row_mask, col_mask) ==
    LET selected_cols == {k - 1 : k \in {j \in 1..Len(col_mask) : col_mask[j]}}
        selected_rows == {k - 1 : k \in {j \in 1..Len(row_mask) : row_mask[j]}}
    IN  [cols |-> selected_cols,
         eq_rows |-> 0..(prim.a_eq.nrows - 1),
         ub_rows |-> IF selected_rows # {} /\ Len(prim.b_ub) > 0
                     THEN selected_rows ELSE {}]

\* solve_single_coalition reads primitives.b_ub[old_row] for every selected
\* row once b_ub has a row: a selected row past the end of b_ub panics
RowOutOfBounds(prim, row_mask) ==
    /\ Len(prim.b_ub) > 0
    /\ \E j \in 1..Len(row_mask) : row_mask[j] /\ j > Len(prim.b_ub)

\* some coalition of `solved` makes solve_single_coalition panic
SolvePanics(ops, prim, solved_set) ==
    \E c \in solved_set :
        LET masks == get_coalition_masks(get_coalition_subset(ops, c), prim)
        IN  /\ \E k \in 1..Len(masks[2]) : masks[2][k]
            /\ RowOutOfBounds(prim, masks[1])

\* the LPs of the coalitions in `solved`; a coalition without a selected
\* column returns None before any LP is assembled
LpsHanded(ops, prim, solved_set) ==
    LET masks(c) == get_coalition_masks(get_coalition_subset(ops, c), prim)
        reaches_solver(c) == \E k \in 1..Len(masks(c)[2]) : masks(c)[2][k]
    IN  [c \in {x \in solved_set : reaches_solver(x)} |->
            RestrictedLP(prim, masks(c)[1], masks(c)[2])]

\* the objective value -obj the solver reports on a column selection
SolverOptimum(prim, col_mask, orc) ==
    LET selected == {k \in 1..Len(col_mask) : col_mask[k]}
        private == {k \in selected : prim.col_index1[k] # ZeroOp}
    IN  IF orc.game = "count"
        THEN FInt(orc.base + Cardinality(private))
        ELSE FInt(orc.base + (IF Cardinality(selected) = Len(col_mask) THEN 1 ELSE 0))

\* solve_single_coalition; failing_masks are the selections the solver does
\* not solve
solve_single_coalition(prim, row_mask, col_mask, orc, failing_masks) ==
    IF \A k \in 1..Len(col_mask) : ~col_mask[k] THEN <<>>
    ELSE IF <<row_mask, col_mask>> \in failing_masks THEN <<>>
    ELSE <<SolverOptimum(prim, col_mask, orc)>>

\* value.unwrap_or(f64::NEG_INFINITY)
UnwrapOrNegInf(opt) == IF opt = <<>> THEN NegInf ELSE opt[1]

\* the masks of the coalitions the oracle lets fail
FailingMasks(ops, prim, orc) ==
    {get_coalition_masks(get_coalition_subset(ops, c), prim) :
        c \in orc.failing \cap Coalitions(Len(ops))}

\* the solve of coalition idx, as both branches of solve_coalition_values
\* and the sampled path run it
SolveCoalition(ops, prim, orc, failing_masks, idx) ==
    LET masks == get_coalition_masks(get_coalition_subset(ops, idx), prim)
    IN  UnwrapOrNegInf(
            solve_single_coalition(prim, masks[1], masks[2], orc, failing_masks))

\* The exact path with the empty coalition set to 0 and not solved
SolveExactSkippingEmpty(ops, bm, prim, orc) ==
    LET n_coalitions == bm.ncols
        failing_masks == FailingMasks(ops, prim, orc)
    IN  [svalue |-> [idx \in 0..(n_coalitions - 1) |->
                        IF idx = 0 THEN FInt(0)
                        ELSE SolveCoalition(ops, prim, orc, failing_masks, idx)],
         size |-> [idx \in 0..(n_coalitions - 1) |->
                        Len(get_coalition_subset(ops, idx))],
         solved |-> 1..(n_coalitions - 1)]

\* solve_coalition_values below the sampling threshold (the parallel and
\* the sequential branch store the same values)
SolveExact(ops, bm, prim, orc) ==
    LET n_coalitions == bm.ncols
        failing_masks == FailingMasks(ops, prim, orc)
    IN  [svalue |-> [idx \in 0..(n_coalitions - 1) |->
                        SolveCoalition(ops, prim, orc, failing_masks, idx)],
         size |-> [idx \in 0..(n_coalitions - 1) |->
                        Len(get_coalition_subset(ops, idx))],
         solved |-> 0..(n_coalitions - 1)]

\* local_rng.gen_range(0..len) at draw k (0-based) of the generator seeded
\* with `seed`; StdRng itself is not modelled, the oracle says which of
\* three generators is in use
GenRange(rng, seed, k, len) ==
    CASE rng = "low" -> 0
      [] rng = "high" -> len - 1
      [] OTHER -> (seed * 7 + k * 13) % len

\* Vec::swap_remove(i): the last element takes the place of element i
swap_remove(v, i) ==
    Evaluated([j \in 1..(Len(v) - 1) |-> IF j = i + 1 THEN v[Len(v)] ELSE v[j]])

RECURSIVE SampleWithoutReplacement(_, _, _, _, _)
\* the coalitions drawn for one size, draws k .. n_samples - 1
SampleWithoutReplacement(indices, k, n_samples, seed, rng) ==
    IF k >= n_samples THEN <<>>
    ELSE LET idx == GenRange(rng, seed, k, Len(indices))
         IN  <<indices[idx + 1]>>
             \o SampleWithoutReplacement(swap_remove(indices, idx), k + 1,
                                         n_samples, seed, rng)

\* The number of samples of the largest networks, for every network
samples_per_size_of_largest(n_ops) == 20

samples_per_size(n_ops) ==
    IF n_ops \in 10..12 THEN 50 ELSE IF n_ops \in 13..15 THEN 30 ELSE 20

\* solve_coalition_values_sampled (the values and sizes are held 1-based
\* while they are worked on: entry idx + 1 is coalition idx)
solve_coalition_values_sampled(ops, bm, prim, orc) ==
    LET n_ops == Len(ops)
        n_coalitions == bm.ncols
        full_idx == n_coalitions - 1
        failing_masks == FailingMasks(ops, prim, orc)
        popcount == Evaluated([i \in 1..n_coalitions |-> PopCount(i - 1, n_ops)])
        all == Evaluated([i \in 1..n_coalitions |-> i - 1])
        \* entry s is the list of the coalitions of size s
        coalitions_by_size ==
            Evaluated([s \in 1..(n_ops - 1) |->
                SelectSeq(all, LAMBDA idx : popcount[idx + 1] = s)])
        sampled ==
            Evaluated([s \in 1..(n_ops - 1) |->
                SampleWithoutReplacement(
                    coalitions_by_size[s], 0,
                    Min(samples_per_size(n_ops), Len(coalitions_by_size[s])),
                    SeedBase + s, orc.rng)])
        sampled_set == UNION {Range(sampled[s]) : s \in 1..(n_ops - 1)}
        \* after "Fill in sampled values"
        filled ==
            Evaluated([i \in 1..n_coalitions |->
                IF i - 1 = full_idx \/ i - 1 \in sampled_set
                THEN SolveCoalition(ops, prim, orc, failing_masks, i - 1)
                ELSE IF i - 1 = 0 THEN FInt(0)
                ELSE NegInf])
        filled_size(idx) ==
            IF idx = full_idx THEN n_ops
            ELSE IF idx \in sampled_set THEN popcount[idx + 1]
            ELSE 0
        \* "Interpolate remaining values"
        known_values ==
            Evaluated([s \in 1..(n_ops - 1) |->
                SelectSeq(coalitions_by_size[s],
                          LAMBDA idx : FGt(filled[idx + 1], NegInf))])
        avg_value ==
            Evaluated([s \in 1..(n_ops - 1) |->
                IF known_values[s] = <<>> THEN NaN
                ELSE FDiv(FSumSeq([j \in 1..Len(known_values[s]) |->
                                      filled[known_values[s][j] + 1]]),
                          FInt(Len(known_values[s])))])
        interpolated(idx) ==
            /\ popcount[idx + 1] \in 1..(n_ops - 1)
            /\ known_values[popcount[idx + 1]] # <<>>
            /\ filled[idx + 1] = NegInf
    IN  [svalue |-> [idx \in 0..(n_coalitions - 1) |->
                        IF interpolated(idx)
                        THEN avg_value[popcount[idx + 1]] ELSE filled[idx + 1]],
         size |-> [idx \in 0..(n_coalitions - 1) |->
                        IF interpolated(idx)
                        THEN popcount[idx + 1] ELSE filled_size(idx)],
         solved |-> {full_idx} \cup sampled_set]

\* solve_coalition_values: the values, the sizes, and the coalitions
\* solve_single_coalition ran for
solve_coalition_values(ops, bm, prim, orc) ==
    IF Len(ops) >= SamplingThreshold
    THEN solve_coalition_values_sampled(ops, bm, prim, orc)
    ELSE SolveExact(ops, bm, prim, orc)

----------------------------------------------------------------------------
(* coalition_computation.rs: the parallel iterators of the coalition       *)
(* solves, one worker per item. A worker reads the operators, the bitmap   *)
(* and the primitives and returns its item; collect() gathers the items in *)
(* a Vec that the calling thread then writes into svalue and size.         *)

\* The item of a worker lands behind those of the workers that finished
\* before it
collect_in_completion_order(results, position, item) ==
    LET k == CHOOSE j \in 1..Len(results) :
                 results[j] = <<>> /\ \A i \in 1..(j - 1) : results[i] # <<>>
    IN  [results EXCEPT ![k] = <<item>>]

\* collect() of a parallel iterator: the item of position `position`
\* (0-based) of the iteration lands at that position of the Vec
collect(results, position, item) ==
    [results EXCEPT ![position + 1] = <<item>>]

\* the closure of the parallel branch of solve_coalition_values:
\* (value, coalition_size) of coalition idx
ParallelItem(ops, prim, orc, idx) ==
    <<SolveCoalition(ops, prim, orc, FailingMasks(ops, prim, orc), idx),
      Len(get_coalition_subset(ops, idx))>>

\* the closure of the parallel iterator of solve_coalition_values_sampled:
\* the (coalition_idx, value, coalition_size) of the coalitions drawn for
\* one size with the generator seeded for that size
SampledItem(ops, bm, prim, orc, coalition_size) ==
    LET n_ops == Len(ops)
        all == Evaluated([i \in 1..bm.ncols |-> i - 1])
        coalitions == SelectSeq(all, LAMBDA idx : PopCount(idx, n_ops) = coalition_size)
        drawn == SampleWithoutReplacement(
                     coalitions, 0, Min(samples_per_size(n_ops), Len(coalitions)),
                     SeedBase + coalition_size, orc.rng)
        failing_masks == FailingMasks(ops, prim, orc)
    IN  Evaluated([j \in 1..Len(drawn) |->
            <<drawn[j], SolveCoalition(ops, prim, orc, failing_masks, drawn[j]),
              coalition_size>>])

\* the number of items of the parallel iterator
NumWorkers(ops, bm) ==
    IF Len(ops) >= SamplingThreshold THEN Len(ops) - 1 ELSE bm.ncols

\* the item of worker w (1-based: position w - 1 of the iteration)
WorkerItem(ops, bm, prim, orc, w) ==
    IF Len(ops) >= SamplingThreshold
    THEN SampledItem(ops, bm, prim, orc, w)
    ELSE ParallelItem(ops, prim, orc, w - 1)

RECURSIVE Flatten(_, _, _)
\* the lists at positions lo .. hi of a list of lists, concatenated
Flatten(lists, lo, hi) ==
    IF lo > hi THEN <<>>
    ELSE IF lo = hi THEN lists[lo]
    ELSE LET mid == (lo + hi) \div 2
         IN  Flatten(lists, lo, mid) \o Flatten(lists, mid + 1, hi)

\* "for (idx, (value, coalition_size)) in results.into_iter().enumerate()"
WriteParallel(results) ==
    [svalue |-> [idx \in 0..(Len(results) - 1) |-> results[idx + 1][1][1]],
     size |-> [idx \in 0..(Len(results) - 1) |-> results[idx + 1][1][2]],
     solved |-> 0..(Len(results) - 1)]

\* solve_coalition_values_sampled from the collected sampled_results on:
\* the empty and the full coalition, "Fill in sampled values" (a later
\* entry for an index overwrites an earlier one), "Interpolate remaining
\* values"
WriteSampled(ops, bm, prim, orc, results) ==
    LET n_ops == Len(ops)
        n_coalitions == bm.ncols
        full_idx == n_coalitions - 1
        sampled_results == Evaluated(Flatten([w \in 1..Len(results) |-> results[w][1]],
                                             1, Len(results)))
        entries(idx) == {k \in 1..Len(sampled_results) : sampled_results[k][1] = idx}
        last(idx) == CHOOSE k \in entries(idx) : \A j \in entries(idx) : j <= k
        popcount == Evaluated([i \in 1..n_coalitions |-> PopCount(i - 1, n_ops)])
        filled ==
            Evaluated([i \in 1..n_coalitions |->
                IF entries(i - 1) # {} THEN sampled_results[last(i - 1)][2]
                ELSE IF i - 1 = full_idx
                THEN SolveCoalition(ops, prim, orc, FailingMasks(ops, prim, orc), full_idx)
                ELSE IF i - 1 = 0 THEN FInt(0)
                ELSE NegInf])
        filled_size ==
            Evaluated([i \in 1..n_coalitions |->
                IF entries(i - 1) # {} THEN sampled_results[last(i - 1)][3]
                ELSE IF i - 1 = full_idx THEN n_ops
                ELSE 0])
        of_size(sz) ==
            SelectSeq([i \in 1..n_coalitions |-> i - 1],
                      LAMBDA idx : popcount[idx + 1] = sz)
        known_values ==
            Evaluated([sz \in 1..(n_ops - 1) |->
                SelectSeq(of_size(sz), LAMBDA idx : FGt(filled[idx + 1], NegInf))])
        avg_value ==
            Evaluated([sz \in 1..(n_ops - 1) |->
                IF known_values[sz] = <<>> THEN NaN
                ELSE FDiv(FSumSeq([j \in 1..Len(known_values[sz]) |->
                                      filled[known_values[sz][j] + 1]]),
                          FInt(Len(known_values[sz])))])
        interpolated(idx) ==
            /\ popcount[idx + 1] \in 1..(n_ops - 1)
            /\ known_values[popcount[idx + 1]] # <<>>
            /\ filled[idx + 1] = NegInf
    IN  [svalue |-> [idx \in 0..(n_coalitions - 1) |->
                        IF interpolated(idx)
                        THEN avg_value[popcount[idx + 1]] ELSE filled[idx + 1]],
         size |-> [idx \in 0..(n_coalitions - 1) |->
                        IF interpolated(idx)
                        THEN popcount[idx + 1] ELSE filled_size[idx + 1]],
         solved |-> {full_idx} \cup {sampled_results[k][1] : k \in 1..Len(sampled_results)}]

----------------------------------------------------------------------------
(* Inputs of the reweighter and the aggregator *)

\* operator names "A", "B", "C", ...
OpName(i) == <<65 + i>>

OpNames(n) == [i \in 1..n |-> OpName(i - 1)]

\* what a coalition's value is changed by: a finite amount, or to -inf
Changes == {FInt(v) : v \in (-1..MaxVal) \ {0}} \cup {NegInf}

\* the games the value vectors are built on: zero, additive (v(S) = |S|),
\* unanimity (v(S) = 1 for the grand coalition only), and the game in which
\* only the first operator counts (v(S) = 1 + [operator 0 in S])
BaseGames(n) ==
    {[c \in Coalitions(n) |-> FInt(0)],
     [c \in Coalitions(n) |-> FInt(PopCount(c, n))],
     [c \in Coalitions(n) |-> FInt(IF c = NCoal(n) - 1 THEN 1 ELSE 0)],
     [c \in Coalitions(n) |-> FInt(1 + Bit(c, 0))]}

\* a base game with the values of at most MaxSupport coalitions changed
ValueVectors(n) ==
    UNION {
        {[c \in Coalitions(n) |-> IF c \in S THEN FAdd(b[c], f[c]) ELSE b[c]] :
            f \in [S -> Changes], b \in BaseGames(n)} :
        S \in {T \in SUBSET Coalitions(n) : Cardinality(T) <= MaxSupport}}

\* the input of test_compute_expected_values_simple: two operators, the
\* values 100, 120, 150, 200 and the uptime 0.9
TestValues == [c \in Coalitions(2) |-> FInt(<<100, 120, 150, 200>>[c + 1])]

TestUptime == 9000

\* the oracle before any solve
NoOracle == [game |-> "none", base |-> 0, failing |-> {}, rng |-> "low"]

\* network_shapley has not returned
Pending == [tag |-> "Pending"]

----------------------------------------------------------------------------
(* Actions: the tail of network_shapley *)

\* network_shapley: let evalue = compute_expected_values(...)?
ComputeExpected ==
    /\ pc = "compute_expected_values"
    /\ evalue' = compute_expected_values(svalue, size, decimal_to_f64(operator_uptime),
                                         Len(operators))
    /\ pc' = "calculate_shapley_values"
    /\ UNCHANGED <<inputs, operators, bitmap, consolidated, primitives, solved,
                   shapley, result>>

\* network_shapley: calculate_shapley_values(&operators, &evalue, &size, n_ops)
CalculateShapley ==
    /\ pc = "calculate_shapley_values"
    /\ LET n == Len(operators)
           sh == ShapleyContributions(evalue, size, n)
       IN  IF WeightsInTable(size, n)
           THEN /\ shapley' = sh
                /\ result' =
                     [tag |-> "Ok",
                      values |-> BuildResults(operators, sh, Percentages(sh, n))]
           ELSE /\ shapley' = <<>>
                /\ result' = [tag |-> "Panic"]
    /\ pc' = "done"
    /\ UNCHANGED <<inputs, operators, bitmap, consolidated, primitives, solved,
                   evalue>>

\* compute_expected_values and calculate_shapley_values on every value vector
InitShapley ==
    /\ pc = "compute_expected_values"
    /\ \/ /\ \E n \in 0..NOps :
               /\ operators = OpNames(n)
               /\ svalue \in ValueVectors(n)
               /\ size = PopSizes(n)
               /\ bitmap = generate_coalition_bitmap(n)
          /\ operator_uptime \in Uptimes
       \/ /\ operators = OpNames(2)
          /\ svalue = TestValues
          /\ size = PopSizes(2)
          /\ bitmap = generate_coalition_bitmap(2)
          /\ operator_uptime = TestUptime
    /\ hybrid_penalty = 0 /\ demand_multiplier = 10000
    /\ private_links = <<>> /\ public_links = <<>> /\ demand = <<>>
    /\ oracle = NoOracle /\ private_df = <<>> /\ public_df = <<>>
    /\ helper_df = <<>> /\ full_map = <<>> /\ primitives = <<>>
    /\ lp_solved = {} /\ lp_handed = <<>> /\ par_results = <<>>
    /\ evalue = <<>> /\ shapley = <<>> /\ result = Pending

NextShapley == ComputeExpected \/ CalculateShapley

SpecShapley == InitShapley /\ [][NextShapley]_vars

----------------------------------------------------------------------------
(* Inputs of network_shapley *)

\* switches
NYC1 == <<78, 89, 67, 49>>
NYC2 == <<78, 89, 67, 50>>
LON1 == <<76, 79, 78, 49>>
PAR1 == <<80, 65, 82, 49>>
TOK1 == <<84, 79, 75, 49>>
WID1 == <<87, 73, 68, 49>>
WID2 == <<87, 73, 68, 50>>
\* a switch of two bytes, "A1"
ShortSwitch == <<65, 49>>
\* cities
NYC == <<78, 89, 67>>
LON == <<76, 79, 78>>
PAR == <<80, 65, 82>>
TOK == <<84, 79, 75>>
\* a city with a digit, "NY1"
DigitCity == <<78, 89, 49>>

\* the private links the input lists are made of: an operator with the
\* default operator2, a shared link of two operators, the reserved name as
\* operator1, an empty operator2, a switch without a digit, a switch no
\* public link reaches
PrivCandidates ==
    {Link(NYC1, LON1, 100000, 100000, OpName(0), ZeroOp, 10000, 0, 0),
     Link(LON1, PAR1, 50000, 50000, OpName(1), OpName(0), 5000, 1, 0),
     Link(NYC1, PAR1, 80000, 50000, ZeroOp, ZeroOp, 10000, 0, 0),
     Link(LON1, NYC1, 100000, 20000, OpName(0), <<>>, 10000, 2, 0),
     Link(NYC, LON1, 100000, 100000, OpName(1), ZeroOp, 10000, 0, 0),
     Link(NYC1, TOK1, 100000, 100000, OpName(1), ZeroOp, 10000, 0, 0)}

\* every list of at most n links from a set
RECURSIVE ListsUpTo(_, _)
ListsUpTo(S, n) ==
    IF n = 0 THEN {<<>>}
    ELSE ListsUpTo(S, n - 1)
         \cup {Append(l, x) : l \in {m \in ListsUpTo(S, n - 1) : Len(m) = n - 1}, x \in S}

\* k links of k different operators between two switches no public link
\* reaches
WideLinks(k) ==
    [i \in 1..k |-> Link(WID1, WID2, 100000, 100000, OpName(i - 1), ZeroOp, 10000, 0, 0)]

PrivateInputs ==
    ListsUpTo(PrivCandidates, MaxPrivLinks)
    \cup {WideLinks(k) : k \in (MaxOperators - 1)..(MaxOperators + 1)}

PublicLink(start, end, cost) ==
    Link(start, end, cost, 0, ZeroOp, ZeroOp, 10000, 0, 0)

PubFull ==
    <<PublicLink(NYC1, LON1, 200000), PublicLink(LON1, PAR1, 200000),
      PublicLink(NYC1, PAR1, 300000)>>

\* no public link; all switches reached; PAR1 not reached; a switch without
\* a digit; a switch of two bytes; two switches in one city
PublicInputs ==
    {<<>>,
     PubFull,
     <<PublicLink(NYC1, LON1, 200000)>>,
     <<PublicLink(NYC, LON1, 200000)>>,
     PubFull \o <<PublicLink(ShortSwitch, NYC1, 100000)>>,
     PubFull \o <<PublicLink(NYC2, LON1, 150000)>>}

\* one demand; two traffic types; one type with two sources; a city with a
\* digit; a city without a switch; no demand
DemandInputs ==
    {<<Demand(NYC, LON, 50000, 1)>>,
     <<Demand(NYC, LON, 50000, 1), Demand(NYC, PAR, 20000, 2)>>,
     <<Demand(NYC, LON, 50000, 1), Demand(LON, PAR, 20000, 1)>>,
     <<Demand(DigitCity, LON, 50000, 1)>>,
     <<Demand(NYC, TOK, 50000, 1)>>,
     <<>>}

\* a solver that succeeds on no coalition of three operators
FailingSize == 3

\* the oracles for n operators
Oracles(n) ==
    {[game |-> g, base |-> b, failing |-> F, rng |-> r] :
        g \in {"count", "full"},
        b \in {0, -3},
        F \in {{}} \cup {{c} : c \in 0..Min(MaxFailing, Pow(2, n) - 1)},
        r \in IF n >= SamplingThreshold THEN {"low", "high", "mixed"} ELSE {"low"}}
    \cup (IF n >= SamplingThreshold
          THEN {[game |-> "count", base |-> 0, rng |-> "low",
                 failing |-> {c \in Coalitions(n) : PopCount(c, n) = FailingSize}]}
          ELSE {})

----------------------------------------------------------------------------
(* Actions: network_shapley, one per call it makes (those of               *)
(* consolidate_map included). pc names the call that runs next.            *)

\* return Err(e)
Fail(e) ==
    /\ pc' = "done"
    /\ result' = [tag |-> "Err", error |-> e]

\* e is NoError: go on to the call `next`; otherwise return Err(e)
Check(e, next) ==
    IF e.kind = "None"
    THEN pc' = next /\ UNCHANGED result
    ELSE Fail(e)

\* network_shapley: let operators = enumerate_operators(&private_links.links)
EnumerateOperators ==
    /\ pc = "enumerate_operators"
    /\ operators' = enumerate_operators(private_links)
    /\ pc' = "validate_operator_names"
    /\ UNCHANGED <<inputs, bitmap, consolidated, primitives, solved, evalue,
                   shapley, result>>

\* network_shapley: validate_operator_names(&operators)?
ValidateOperatorNames ==
    /\ pc = "validate_operator_names"
    /\ Check(validate_operator_names(operators), "generate_coalition_bitmap")
    /\ UNCHANGED <<inputs, operators, bitmap, consolidated, primitives, solved,
                   evalue, shapley>>

\* network_shapley: let bitmap = generate_coalition_bitmap(n_ops)
GenerateCoalitionBitmap ==
    /\ pc = "generate_coalition_bitmap"
    /\ bitmap' = generate_coalition_bitmap(Len(operators))
    /\ pc' = "validate_private_links"
    /\ UNCHANGED <<inputs, operators, consolidated, primitives, solved, evalue,
                   shapley, result>>

\* consolidate_map: validate_private_links(private_links)?
ValidatePrivateLinks ==
    /\ pc = "validate_private_links"
    /\ Check(validate_private_links(private_links), "validate_public_links")
    /\ UNCHANGED <<inputs, operators, bitmap, consolidated, primitives, solved,
                   evalue, shapley>>

\* consolidate_map: validate_public_links(public_links)?
ValidatePublicLinks ==
    /\ pc = "validate_public_links"
    /\ Check(validate_public_links(public_links), "validate_switch_naming_private")
    /\ UNCHANGED <<inputs, operators, bitmap, consolidated, primitives, solved,
                   evalue, shapley>>

\* consolidate_map: validate_switch_naming(&private_links.links, "private")?
ValidateSwitchNamingPrivate ==
    /\ pc = "validate_switch_naming_private"
    /\ Check(validate_switch_naming(private_links, "private"), "validate_switch_naming_public")
    /\ UNCHANGED <<inputs, operators, bitmap, consolidated, primitives, solved,
                   evalue, shapley>>

\* consolidate_map: validate_switch_naming(&public_links.links, "public")?
ValidateSwitchNamingPublic ==
    /\ pc = "validate_switch_naming_public"
    /\ Check(validate_switch_naming(public_links, "public"), "validate_endpoint_naming")
    /\ UNCHANGED <<inputs, operators, bitmap, consolidated, primitives, solved,
                   evalue, shapley>>

\* consolidate_map: validate_endpoint_naming(demand)?
ValidateEndpointNaming ==
    /\ pc = "validate_endpoint_naming"
    /\ Check(validate_endpoint_naming(demand), "validate_traffic_types")
    /\ UNCHANGED <<inputs, operators, bitmap, consolidated, primitives, solved,
                   evalue, shapley>>

\* consolidate_map: validate_traffic_types(demand)?
ValidateTrafficTypes ==
    /\ pc = "validate_traffic_types"
    /\ Check(validate_traffic_types(demand), "prepare_private_links")
    /\ UNCHANGED <<inputs, operators, bitmap, consolidated, primitives, solved,
                   evalue, shapley>>

\* consolidate_map: let private_df = prepare_private_links(...)?
PreparePrivateLinks ==
    /\ pc = "prepare_private_links"
    /\ private_df' = prepare_private_links(private_links)
    /\ pc' = "prepare_public_links"
    /\ UNCHANGED <<inputs, operators, bitmap, public_df, helper_df, full_map,
                   primitives, solved, evalue, shapley, result>>

\* consolidate_map: let public_df = prepare_public_links(...)?
PreparePublicLinks ==
    /\ pc = "prepare_public_links"
    /\ public_df' = prepare_public_links(public_links)
    /\ pc' = "validate_public_pathway_coverage"
    /\ UNCHANGED <<inputs, operators, bitmap, private_df, helper_df, full_map,
                   primitives, solved, evalue, shapley, result>>

\* consolidate_map: validate_public_pathway_coverage(&private_df, &public_df, demand)?
ValidatePublicPathwayCoverage ==
    /\ pc = "validate_public_pathway_coverage"
    /\ \E e \in validate_public_pathway_coverage(private_df, public_df, demand) :
          Check(e, "generate_helper_links")
    /\ UNCHANGED <<inputs, operators, bitmap, consolidated, primitives, solved,
                   evalue, shapley>>

\* consolidate_map: let helper_df = generate_helper_links(&public_df, demand)?
GenerateHelperLinks ==
    /\ pc = "generate_helper_links"
    /\ helper_df' \in generate_helper_links(public_df, demand)
    /\ pc' = "merge_link_components"
    /\ UNCHANGED <<inputs, operators, bitmap, private_df, public_df, full_map,
                   primitives, solved, evalue, shapley, result>>

\* consolidate_map: merge_link_components(private_df, public_df, helper_df,
\* hybrid_penalty), returned to network_shapley as full_map
MergeLinkComponents ==
    /\ pc = "merge_link_components"
    /\ full_map' = merge_link_components(private_df, public_df, helper_df,
                                         hybrid_penalty)
    /\ pc' = "lp_primitives"
    /\ UNCHANGED <<inputs, operators, bitmap, private_df, public_df, helper_df,
                   primitives, solved, evalue, shapley, result>>

\* network_shapley: let primitives = lp_primitives(&full_map, demand,
\* demand_multiplier)?
LpPrimitives ==
    /\ pc = "lp_primitives"
    /\ primitives' = lp_primitives(full_map, demand, demand_multiplier)
    /\ pc' = "solve_coalition_values"
    /\ UNCHANGED <<inputs, operators, bitmap, consolidated, solved, evalue,
                   shapley, result>>

\* network_shapley: let (svalue, size) = solve_coalition_values(&operators,
\* &bitmap, &primitives)?, with the solver and the generator any of the
\* oracles
SolveCoalitionValues ==
    /\ pc = "solve_coalition_values"
    /\ \E orc \in Oracles(Len(operators)) :
        LET r == solve_coalition_values(operators, bitmap, primitives, orc)
        IN  /\ oracle' = orc
            /\ IF SolvePanics(operators, primitives, r.solved)
               THEN /\ result' = [tag |-> "Panic"]
                    /\ pc' = "done"
                    /\ UNCHANGED <<svalue, size, lp_solved, lp_handed>>
               ELSE /\ svalue' = r.svalue
                    /\ size' = r.size
                    /\ lp_solved' = r.solved
                    /\ lp_handed' = LpsHanded(operators, primitives, r.solved)
                    /\ pc' = "compute_expected_values"
                    /\ UNCHANGED result
    /\ UNCHANGED <<inputs, operators, bitmap, consolidated, primitives,
                   par_results, evalue, shapley>>

\* the arguments network_shapley is called with
Init ==
    /\ pc = "enumerate_operators"
    /\ private_links \in PrivateInputs
    /\ public_links \in PublicInputs
    /\ demand \in DemandInputs
    /\ operator_uptime \in {10000, 5000}
    /\ hybrid_penalty = 50000
    /\ demand_multiplier = 10000
    /\ oracle = NoOracle
    /\ operators = <<>> /\ bitmap = NoBitmap
    /\ private_df = <<>> /\ public_df = <<>> /\ helper_df = <<>>
    /\ full_map = <<>> /\ primitives = <<>>
    /\ svalue = <<>> /\ size = <<>> /\ lp_solved = {} /\ lp_handed = <<>>
    /\ par_results = <<>>
    /\ evalue = <<>> /\ shapley = <<>> /\ result = Pending

Next ==
    \/ EnumerateOperators
    \/ ValidateOperatorNames
    \/ GenerateCoalitionBitmap
    \/ ValidatePrivateLinks
    \/ ValidatePublicLinks
    \/ ValidateSwitchNamingPrivate
    \/ ValidateSwitchNamingPublic
    \/ ValidateEndpointNaming
    \/ ValidateTrafficTypes
    \/ PreparePrivateLinks
    \/ PreparePublicLinks
    \/ ValidatePublicPathwayCoverage
    \/ GenerateHelperLinks
    \/ MergeLinkComponents
    \/ LpPrimitives
    \/ SolveCoalitionValues
    \/ ComputeExpected
    \/ CalculateShapley

Spec == Init /\ [][Next]_vars

----------------------------------------------------------------------------
(* solve_coalition_values on its own: network_shapley at the call, for     *)
(* inputs that pass every validation, among them one of SamplingThreshold  *)
(* operators                                                               *)

\* k links of k different operators between two switches of PubFull
ParallelLinks(k) ==
    [i \in 1..k |-> Link(NYC1, LON1, 100000, 100000, OpName(i - 1), ZeroOp, 10000, 0, 0)]

\* network_shapley gets as far as lp_primitives on these arguments
PassesValidation(private, public, dm) ==
    /\ validate_operator_names(enumerate_operators(private)).kind = "None"
    /\ validate_private_links(private).kind = "None"
    /\ validate_public_links(public).kind = "None"
    /\ validate_switch_naming(private, "private").kind = "None"
    /\ validate_switch_naming(public, "public").kind = "None"
    /\ validate_endpoint_naming(dm).kind = "None"
    /\ validate_traffic_types(dm).kind = "None"
    /\ validate_public_pathway_coverage(
           prepare_private_links(private), prepare_public_links(public), dm)
         = {NoError}

\* a link of operator "0" ahead of two links of an operator
ZeroFirstLinks ==
    <<Link(NYC1, PAR1, 80000, 50000, ZeroOp, ZeroOp, 10000, 0, 0),
      Link(NYC1, LON1, 100000, 100000, OpName(0), ZeroOp, 10000, 0, 0),
      Link(LON1, PAR1, 50000, 50000, OpName(0), ZeroOp, 10000, 0, 0)>>

\* k links of k different operators, and a second link of the first
\* operator
UnevenLinks(k) ==
    Append(ParallelLinks(k),
           Link(NYC1, LON1, 100000, 100000, OpName(0), ZeroOp, 10000, 0, 0))

\* the links with operator `old` renamed to `new`
Renamed(links, old, new) ==
    [i \in 1..Len(links) |->
        [links[i] EXCEPT !.operator1 = IF @ = old THEN new ELSE @,
                         !.operator2 = IF @ = old THEN new ELSE @]]

SolveInputs ==
    {p \in ListsUpTo(PrivCandidates, MaxPrivLinks)
           \cup {ParallelLinks(3), ParallelLinks(SamplingThreshold), ZeroFirstLinks} :
        PassesValidation(p, PubFull, <<Demand(NYC, LON, 50000, 1)>>)}

InitSolve ==
    /\ pc = "solve_coalition_values"
    /\ private_links \in SolveInputs
    /\ public_links = PubFull
    /\ demand \in {<<Demand(NYC, LON, 50000, 1)>>,
                   <<Demand(NYC, LON, 50000, 1), Demand(NYC, PAR, 20000, 2)>>}
    /\ operator_uptime = 10000
    /\ hybrid_penalty = 50000
    /\ demand_multiplier = 10000
    /\ operators = enumerate_operators(private_links)
    /\ bitmap = generate_coalition_bitmap(Len(operators))
    /\ private_df = prepare_private_links(private_links)
    /\ public_df = prepare_public_links(public_links)
    /\ helper_df \in generate_helper_links(public_df, demand)
    /\ full_map = merge_link_components(private_df, public_df, helper_df,
                                        hybrid_penalty)
    /\ primitives = lp_primitives(full_map, demand, demand_multiplier)
    /\ oracle = NoOracle
    /\ svalue = <<>> /\ size = <<>> /\ lp_solved = {} /\ lp_handed = <<>>
    /\ par_results = <<>>
    /\ evalue = <<>> /\ shapley = <<>> /\ result = Pending

NextSolve == SolveCoalitionValues

SpecSolve == InitSolve /\ [][NextSolve]_vars

----------------------------------------------------------------------------
(* lp_primitives and solve_coalition_values on link maps with shared       *)
(* capacity groups: links of one group with different bandwidths and       *)
(* different operators, a group id with a gap, a link of two operators     *)

GroupCandidates ==
    {Link(NYC1, LON1, 100000, 100000, OpName(0), ZeroOp, 10000, 1, 0),
     Link(LON1, PAR1, 50000, 50000, OpName(0), ZeroOp, 10000, 1, 0),
     Link(LON1, PAR1, 50000, 40000, OpName(1), ZeroOp, 10000, 1, 0),
     Link(NYC1, PAR1, 80000, 80000, OpName(1), OpName(0), 5000, 0, 0),
     Link(NYC1, LON1, 100000, 100000, OpName(0), ZeroOp, 10000, 3, 0),
     Link(NYC1, PAR1, 80000, 50000, ZeroOp, ZeroOp, 10000, 0, 0)}

GroupInputs ==
    {p \in ListsUpTo(GroupCandidates, MaxPrivLinks) :
        PassesValidation(p, PubFull, <<Demand(NYC, LON, 50000, 1)>>)}

InitPrimitives ==
    /\ pc = "lp_primitives"
    /\ private_links \in GroupInputs
    /\ public_links = PubFull
    /\ demand \in {<<Demand(NYC, LON, 50000, 1)>>,
                   <<Demand(NYC, LON, 50000, 1), Demand(NYC, PAR, 20000, 2)>>}
    /\ operator_uptime = 10000
    /\ hybrid_penalty = 50000
    /\ demand_multiplier = 10000
    /\ operators = enumerate_operators(private_links)
    /\ bitmap = generate_coalition_bitmap(Len(operators))
    /\ private_df = prepare_private_links(private_links)
    /\ public_df = prepare_public_links(public_links)
    /\ helper_df \in generate_helper_links(public_df, demand)
    /\ full_map = merge_link_components(private_df, public_df, helper_df,
                                        hybrid_penalty)
    /\ primitives = <<>>
    /\ oracle = NoOracle
    /\ svalue = <<>> /\ size = <<>> /\ lp_solved = {} /\ lp_handed = <<>>
    /\ par_results = <<>>
    /\ evalue = <<>> /\ shapley = <<>> /\ result = Pending

NextPrimitives == LpPrimitives \/ SolveCoalitionValues

SpecPrimitives == InitPrimitives /\ [][NextPrimitives]_vars

----------------------------------------------------------------------------
(* solve_coalition_values on inputs in which one operator owns more than   *)
(* the others, below and at the sampling threshold                         *)

RelabelInputs ==
    {p \in ListsUpTo(PrivCandidates, MaxPrivLinks)
           \cup {ParallelLinks(3), UnevenLinks(3), UnevenLinks(SamplingThreshold)} :
        PassesValidation(p, PubFull, <<Demand(NYC, LON, 50000, 1)>>)}

InitRelabel ==
    /\ pc = "solve_coalition_values"
    /\ private_links \in RelabelInputs
    /\ public_links = PubFull
    /\ demand = <<Demand(NYC, LON, 50000, 1)>>
    /\ operator_uptime = 10000
    /\ hybrid_penalty = 50000
    /\ demand_multiplier = 10000
    /\ operators = enumerate_operators(private_links)
    /\ bitmap = generate_coalition_bitmap(Len(operators))
    /\ private_df = prepare_private_links(private_links)
    /\ public_df = prepare_public_links(public_links)
    /\ helper_df \in generate_helper_links(public_df, demand)
    /\ full_map = merge_link_components(private_df, public_df, helper_df,
                                        hybrid_penalty)
    /\ primitives = lp_primitives(full_map, demand, demand_multiplier)
    /\ oracle = NoOracle
    /\ svalue = <<>> /\ size = <<>> /\ lp_solved = {} /\ lp_handed = <<>>
    /\ par_results = <<>>
    /\ evalue = <<>> /\ shapley = <<>> /\ result = Pending

NextRelabel == SolveCoalitionValues

SpecRelabel == InitRelabel /\ [][NextRelabel]_vars

----------------------------------------------------------------------------
(* solve_coalition_values with its parallel iterators unfolded: the        *)
(* workers finish in any order. Three operators take the parallel branch,  *)
(* SamplingThreshold operators the sampled path.                           *)

\* the solver and the generator of a run: the solver solves every
\* coalition, or all but coalition 1
WorkerOracles(n) ==
    {o \in Oracles(n) :
        /\ o.game = "count" /\ o.base = 0
        /\ o.failing \in {{}, {1}}
        /\ n >= SamplingThreshold =>
              <<o.failing, o.rng>> \in {<<{}, "mixed">>, <<{1}, "low">>}}

\* solve_coalition_values up to into_par_iter(): the workers are spawned
StartWorkers ==
    /\ pc = "solve_coalition_values"
    /\ oracle' \in WorkerOracles(Len(operators))
    /\ par_results' = [w \in 1..NumWorkers(operators, bitmap) |-> <<>>]
    /\ pc' = "par_iter"
    /\ UNCHANGED <<inputs, operators, bitmap, consolidated, primitives, svalue,
                   size, lp_solved, lp_handed, evalue, shapley, result>>

\* a worker that has not finished returns its item
WorkerFinishes ==
    /\ pc = "par_iter"
    /\ \E w \in 1..Len(par_results) :
        /\ par_results[w] = <<>>
        /\ par_results' =
             collect(par_results, w - 1,
                     WorkerItem(operators, bitmap, primitives, oracle, w))
    /\ UNCHANGED <<pc, inputs, operators, bitmap, consolidated, primitives,
                   oracle, svalue, size, lp_solved, lp_handed, evalue, shapley,
                   result>>

\* collect() has every item: the calling thread writes svalue and size
WriteResults ==
    /\ pc = "par_iter"
    /\ \A w \in 1..Len(par_results) : par_results[w] # <<>>
    /\ LET r == IF Len(operators) >= SamplingThreshold
                THEN WriteSampled(operators, bitmap, primitives, oracle, par_results)
                ELSE WriteParallel(par_results)
       IN  /\ svalue' = r.svalue
           /\ size' = r.size
           /\ lp_solved' = r.solved
           /\ lp_handed' = LpsHanded(operators, primitives, r.solved)
    /\ pc' = "compute_expected_values"
    /\ UNCHANGED <<inputs, operators, bitmap, consolidated, primitives, oracle,
                   par_results, evalue, shapley, result>>

InitWorkers ==
    /\ pc = "solve_coalition_values"
    /\ private_links \in {ParallelLinks(3), ParallelLinks(SamplingThreshold)}
    /\ public_links = PubFull
    /\ demand = <<Demand(NYC, LON, 50000, 1)>>
    /\ operator_uptime = 10000
    /\ hybrid_penalty = 50000
    /\ demand_multiplier = 10000
    /\ operators = enumerate_operators(private_links)
    /\ bitmap = generate_coalition_bitmap(Len(operators))
    /\ private_df = prepare_private_links(private_links)
    /\ public_df = prepare_public_links(public_links)
    /\ helper_df \in generate_helper_links(public_df, demand)
    /\ full_map = merge_link_components(private_df, public_df, helper_df,
                                        hybrid_penalty)
    /\ primitives = lp_primitives(full_map, demand, demand_multiplier)
    /\ oracle = NoOracle
    /\ svalue = <<>> /\ size = <<>> /\ lp_solved = {} /\ lp_handed = <<>>
    /\ par_results = <<>>
    /\ evalue = <<>> /\ shapley = <<>> /\ result = Pending

NextWorkers == StartWorkers \/ WorkerFinishes \/ WriteResults

SpecWorkers == InitWorkers /\ [][NextWorkers]_vars

----------------------------------------------------------------------------
(* prepare_private_links and compact_shared_ids on their own, for lists of *)
(* links with and without operators, shared ids and second operators       *)

\* endpoints, second operator ("0", empty, or another operator), uptime and
\* link type of a link
PrepareVariants ==
    {[s |-> NYC1, e |-> LON1, op2 |-> ZeroOp, up |-> 10000, lt |-> 0],
     [s |-> NYC1, e |-> LON1, op2 |-> <<>>, up |-> 5000, lt |-> 1],
     [s |-> LON1, e |-> PAR1, op2 |-> OpName(1), up |-> 9000, lt |-> 0]}

\* links of operator "A" or "0" with shared id 0, 1 or 3
PrepareCandidates ==
    {Link(v.s, v.e, 100000, 100000, op1, v.op2, v.up, sh, v.lt) :
        v \in PrepareVariants, op1 \in {OpName(0), ZeroOp}, sh \in {0, 1, 3}}

\* compact_shared_ids(&mut links)
CompactSharedIds ==
    /\ pc = "compact_shared_ids"
    /\ private_df' = compact_shared_ids(private_links)
    /\ pc' = "compacted"
    /\ UNCHANGED <<inputs, operators, bitmap, public_df, helper_df, full_map,
                   primitives, solved, evalue, shapley, result>>

InitPrepare ==
    /\ pc \in {"prepare_private_links", "compact_shared_ids"}
    /\ private_links \in ListsUpTo(PrepareCandidates, MaxPrivLinks)
    /\ public_links = <<>>
    /\ demand = <<>>
    /\ operator_uptime = 10000
    /\ hybrid_penalty = 50000
    /\ demand_multiplier = 10000
    /\ oracle = NoOracle
    /\ operators = <<>> /\ bitmap = NoBitmap
    /\ private_df = <<>> /\ public_df = <<>> /\ helper_df = <<>>
    /\ full_map = <<>> /\ primitives = <<>>
    /\ svalue = <<>> /\ size = <<>> /\ lp_solved = {} /\ lp_handed = <<>>
    /\ par_results = <<>>
    /\ evalue = <<>> /\ shapley = <<>> /\ result = Pending

NextPrepare == PreparePrivateLinks \/ CompactSharedIds

SpecPrepare == InitPrepare /\ [][NextPrepare]_vars

----------------------------------------------------------------------------
(* consolidation.rs: consolidate_demand. A demand of this file has         *)
(* receivers, a priority, a kind (the traffic type) and a multicast flag;  *)
(* a consolidated demand also keeps its original kind.                     *)

\* Demand::new(start, end, receivers, traffic, priority, kind, multicast)
KindDemand(start, end, receivers, traffic, priority, kind, multicast) ==
    [start |-> start, end |-> end, receivers |-> receivers, traffic |-> traffic,
     priority |-> priority, kind |-> kind, multicast |-> multicast]

\* (priority * 100.0).round() as i64: round half away from zero; NaN casts
\* to 0
priority_rounded(priority) ==
    LET x == FMul(priority, FInt(100))
    IN  IF ~IsFinite(x) THEN 0
        ELSE IF x[2] >= 0 THEN (2 * x[2] + x[3]) \div (2 * x[3])
        ELSE 0 - ((2 * (0 - x[2]) + x[3]) \div (2 * x[3]))

\* the order of the keys (kind, end, rounded priority) of the BTreeMap
GroupKeyLess(a, b) ==
    IF a[1] # b[1] THEN a[1] < b[1]
    ELSE IF a[2] # b[2] THEN StrLess(a[2], b[2])
    ELSE a[3] < b[3]

RECURSIVE SortGroupKeys(_)
\* the keys in the order the BTreeMap iterates them
SortGroupKeys(S) ==
    IF S = {} THEN <<>>
    ELSE LET m == CHOOSE x \in S : \A y \in S \ {x} : GroupKeyLess(x, y)
         IN  <<m>> \o SortGroupKeys(S \ {m})

\* consolidate_demand, "merge demands with same type, end, and priority"
\* and "add non-aggregated demands"
MergeDuplicates(demands) ==
    LET key(i) == <<demands[i].kind, demands[i].end,
                    priority_rounded(demands[i].priority)>>
        indices(k) == SelectSeq([i \in 1..Len(demands) |-> i], LAMBDA i : key(i) = k)
        keys == SortGroupKeys({key(i) : i \in 1..Len(demands)})
        merged_keys == SelectSeq(keys, LAMBDA k : Len(indices(k)) > 1)
        merged(k) ==
            LET first == demands[indices(k)[1]]
            IN  [start |-> first.start, end |-> first.end,
                 receivers |-> SumSeq([j \in 1..Len(indices(k)) |->
                                          demands[indices(k)[j]].receivers]),
                 traffic |-> first.traffic,
                 priority |-> FDiv(FSumSeq([j \in 1..Len(indices(k)) |->
                                               demands[indices(k)[j]].priority]),
                                   FInt(Len(indices(k)))),
                 kind |-> first.kind, multicast |-> first.multicast,
                 original |-> first.kind]
        single == SelectSeq([i \in 1..Len(demands) |-> i],
                            LAMBDA i : Len(indices(key(i))) = 1)
    IN  [j \in 1..Len(merged_keys) |-> merged(merged_keys[j])]
        \o [j \in 1..Len(single) |->
               [start |-> demands[single[j]].start, end |-> demands[single[j]].end,
                receivers |-> demands[single[j]].receivers,
                traffic |-> demands[single[j]].traffic,
                priority |-> demands[single[j]].priority,
                kind |-> demands[single[j]].kind,
                multicast |-> demands[single[j]].multicast,
                original |-> demands[single[j]].kind]]

RECURSIVE SplitUnicast(_, _, _, _)
\* consolidate_demand, "split unicast types by rounded priority": the types
\* still to visit, in ascending order; grouped holds the list as it was
\* when unicast_by_type was built
SplitUnicast(cons, grouped, types, max_type) ==
    IF types = <<>> THEN [list |-> cons, max_type |-> max_type]
    ELSE LET type_id == Head(types)
             indices == {i \in 1..Len(grouped) :
                            ~grouped[i].multicast /\ grouped[i].kind = type_id}
             sorted_priorities ==
                 SortedSeq({priority_rounded(cons[i].priority) : i \in indices})
             rank(i) == CHOOSE r \in 1..Len(sorted_priorities) :
                            sorted_priorities[r] = priority_rounded(cons[i].priority)
         IN  IF Len(sorted_priorities) > 1
             THEN CHOOSE r \in
                      {SplitUnicast(retyped, grouped, Tail(types),
                                    max_type + (Len(sorted_priorities) - 1)) :
                          retyped \in {Evaluated([i \in 1..Len(cons) |->
                              IF i \in indices
                              THEN [cons[i] EXCEPT !.kind =
                                       IF rank(i) = 1 THEN type_id
                                       ELSE max_type + (rank(i) - 1)]
                              ELSE cons[i]])}} : TRUE
             ELSE SplitUnicast(cons, grouped, Tail(types), max_type)

\* Every multicast demand keeps its type
SplitMulticastNone(cons, grouped, types, max_type) == cons

RECURSIVE SplitMulticast(_, _, _, _)
\* consolidate_demand, "assign unique types to multicast demands"
SplitMulticast(cons, grouped, types, max_type) ==
    IF types = <<>> THEN cons
    ELSE LET type_id == Head(types)
             indices == SelectSeq([i \in 1..Len(grouped) |-> i],
                            LAMBDA i : grouped[i].multicast /\ grouped[i].kind = type_id)
             position(i) == CHOOSE r \in 1..Len(indices) : indices[r] = i
         IN  IF Len(indices) > 1
             THEN CHOOSE r \in
                      {SplitMulticast(retyped, grouped, Tail(types),
                                      max_type + (Len(indices) - 1)) :
                          retyped \in {Evaluated([i \in 1..Len(cons) |->
                              IF cons[i].multicast /\ grouped[i].kind = type_id
                                 /\ position(i) > 1
                              THEN [cons[i] EXCEPT !.kind =
                                       max_type + (position(i) - 1)]
                              ELSE cons[i]])}} : TRUE
             ELSE SplitMulticast(cons, grouped, Tail(types), max_type)

\* the largest kind of a list of demands, 0 for none
MaxKind(cons) ==
    LET kinds == {cons[i].kind : i \in 1..Len(cons)}
    IN  IF kinds = {} THEN 0 ELSE CHOOSE m \in kinds : \A k \in kinds : k <= m

\* the kinds of the unicast (multicast = FALSE) or of the multicast demands
\* of a list, in ascending order (the keys of the BTreeMap)
KindsOf(cons, multicast) ==
    SortedSeq({cons[i].kind : i \in {j \in 1..Len(cons) : cons[j].multicast = multicast}})

\* consolidate_demand(demands, demand_multiplier); each step works on the
\* list the step before it has left
consolidate_demand(demands, multiplier) ==
    LET merged == {Evaluated(MergeDuplicates(demands))}
        unicast == {SplitUnicast(m, m, KindsOf(m, FALSE), MaxKind(m)) : m \in merged}
        split == {SplitMulticast(u.list, u.list, KindsOf(u.list, TRUE), u.max_type) :
                     u \in unicast}
    IN  CHOOSE r \in {Evaluated([i \in 1..Len(sp) |->
                          [sp[i] EXCEPT !.traffic = FMul(@, multiplier)]]) :
                      sp \in split} : TRUE

\* the largest number of demands given to consolidate_demand
MaxDemands == 4

\* demands of two kinds between four places: two multicast demands of one
\* kind, unicast demands of that kind with priorities that round alike
\* (1.0 and 1.004) and apart (2.0), a multicast demand of the largest kind
KindDemands ==
    {KindDemand(NYC, LON, 1, FInt(1), FInt(1), 1, TRUE),
     KindDemand(NYC, TOK, 2, FInt(1), FInt(1), 1, TRUE),
     KindDemand(NYC, LON, 1, FInt(1), FInt(1), 1, FALSE),
     KindDemand(NYC, PAR, 1, FInt(2), Fin(1004, 1000), 1, FALSE),
     KindDemand(NYC, TOK, 1, FInt(1), FInt(2), 1, FALSE),
     KindDemand(LON, TOK, 3, FInt(1), FInt(2), 3, TRUE)}

\* consolidate_demand(&demands, demand_multiplier)
ConsolidateDemand ==
    /\ pc = "consolidate_demand"
    /\ result' = [tag |-> "Ok",
                  demands |-> consolidate_demand(demand, demand_multiplier)]
    /\ pc' = "consolidated"
    /\ UNCHANGED <<inputs, operators, bitmap, consolidated, primitives, solved,
                   evalue, shapley>>

InitConsolidate ==
    /\ pc = "consolidate_demand"
    /\ private_links = <<>>
    /\ public_links = <<>>
    /\ demand \in ListsUpTo(KindDemands, MaxDemands)
    /\ operator_uptime = 10000
    /\ hybrid_penalty = 50000
    /\ demand_multiplier = FInt(2)
    /\ oracle = NoOracle
    /\ operators = <<>> /\ bitmap = NoBitmap
    /\ private_df = <<>> /\ public_df = <<>> /\ helper_df = <<>>
    /\ full_map = <<>> /\ primitives = <<>>
    /\ svalue = <<>> /\ size = <<>> /\ lp_solved = {} /\ lp_handed = <<>>
    /\ par_results = <<>>
    /\ evalue = <<>> /\ shapley = <<>> /\ result = Pending

NextConsolidate == ConsolidateDemand

SpecConsolidate == InitConsolidate /\ [][NextConsolidate]_vars

----------------------------------------------------------------------------
(* Properties of network_shapley (Spec) *)

\* network_shapley has returned Ok
Succeeded == pc = "done" /\ result.tag = "Ok"

\* the operator names other than "0" that a private link carries
OperatorNames ==
    ({private_links[i].operator1 : i \in 1..Len(private_links)}
     \cup {private_links[i].operator2 : i \in 1..Len(private_links)})
    \ {ZeroOp}

Failed(kind) == pc = "done" /\ result.tag = "Err" /\ result.error.kind = kind

\* C3: the result has exactly one ShapleyValue per operator name other than
\* "0" that is operator1 or operator2 of a private link, in ascending
\* byte-wise order of the names.
C3_OneValuePerOperatorSorted ==
    Succeeded =>
        /\ {result.values[i].operator : i \in 1..Len(result.values)} = OperatorNames
        /\ Len(result.values) = Cardinality(OperatorNames)
        /\ \A i, j \in 1..Len(result.values) :
              i < j => StrLess(result.values[i].operator, result.values[j].operator)

\* three operators, one of them named only as operator2, and the input
\* not in the order of the names
C3_Witness ==
    /\ Succeeded
    /\ Len(result.values) = 3
    /\ StrLess(private_links[2].operator1, private_links[1].operator1)

\* C4: when network_shapley returns a validation error, no matrix has been
\* constructed and no coalition LP has been solved.
C4_ValidationBeforeCompute ==
    (pc = "done" /\ result.tag = "Err") =>
        /\ bitmap = NoBitmap
        /\ DOMAIN primitives = {}
        /\ lp_solved = {}

\* C5: a private link with operator1 = "0" makes network_shapley fail with
\* ReservedOperatorName.
C5_ReservedOperatorName ==
    (pc = "done" /\ \E i \in 1..Len(private_links) : private_links[i].operator1 = ZeroOp)
        => Failed("ReservedOperatorName")

FirstThree(sw) == SubSeq(sw, 1, Min(3, Len(sw)))

\* (a) the endpoints of private links that are no endpoint of a public link
UncoveredSwitches == Switches(private_df) \ Switches(public_df)

\* (b) the demand cities that are not the first 3 characters of any
\* public switch
UncoveredCities ==
    {c \in {demand[i].start : i \in 1..Len(demand)}
           \cup {demand[i].end : i \in 1..Len(demand)} :
        \A sw \in Switches(public_df) : FirstThree(sw) # c}

\* validate_public_pathway_coverage has run and network_shapley has returned
CoverageChecked == pc = "done" /\ public_df # <<>>

\* the error is IncompletePublicPathway for `location` with exactly the
\* labels of S missing
ReportsMissing(location, S) ==
    /\ result.error.location = location
    /\ Range(result.error.missing) = S
    /\ Len(result.error.missing) = Cardinality(S)

\* C7: validate_public_pathway_coverage fails with IncompletePublicPathway
\* exactly when (a) a private switch is on no public link or (b) a demand
\* city is not the first 3 characters of a public switch; (a) is reported
\* before (b), and the missing list is the set of uncovered labels of the
\* reported kind.
C7_PublicPathwayCoverage ==
    CoverageChecked =>
        /\ Failed("IncompletePublicPathway")
              <=> (UncoveredSwitches # {} \/ UncoveredCities # {})
        /\ UncoveredSwitches # {} =>
              ReportsMissing("all the switches", UncoveredSwitches)
        /\ (UncoveredSwitches = {} /\ UncoveredCities # {}) =>
              ReportsMissing("the demand points", UncoveredCities)

\* both a switch and a city are uncovered, and the switches are reported
C7_Witness ==
    /\ CoverageChecked
    /\ UncoveredSwitches # {}
    /\ UncoveredCities # {}
    /\ Failed("IncompletePublicPathway")
    /\ result.error.location = "all the switches"

\* generate_helper_links has returned helper_df
HelpersGenerated == pc = "merge_link_components"

\* the city of a switch: its first three bytes
CityOf(sw) == SubSeq(sw, 1, 3)

\* the switches of the public links that have a city, and the city pairs
\* the public links join with their costs
CitySwitches == {sw \in Switches(public_df) : Len(sw) >= 3}

PublicCosts(a, b) ==
    {public_df[i].cost : i \in
        {j \in 1..Len(public_df) :
            /\ Len(public_df[j].start) >= 3 /\ Len(public_df[j].end) >= 3
            /\ CityOf(public_df[j].start) = a /\ CityOf(public_df[j].end) = b}}

\* <<start, end, cost, link_type>> of the helper links demand type t asks for
HelpersWanted(t) ==
    LET of_type == {i \in 1..Len(demand) : demand[i].demand_type = t}
        src == demand[CHOOSE i \in of_type : \A j \in of_type : i <= j].start
        dsts == {demand[i].end : i \in of_type}
    IN  {<<src, sw, 0, t>> : sw \in {x \in CitySwitches : CityOf(x) = src}}
        \cup {<<sw, CityOf(sw), 0, t>> : sw \in {x \in CitySwitches : CityOf(x) \in dsts}}
        \cup {<<src, d, CHOOSE c \in PublicCosts(src, d) :
                            \A e \in PublicCosts(src, d) : c <= e, t>> :
                 d \in {x \in dsts : PublicCosts(src, x) # {}}}

\* C22: for each demand type t with source city src and destinations dsts,
\* generate_helper_links emits, all with link_type t, exactly one free link
\* src -> sw per public switch sw of city src, exactly one free link
\* sw -> d per public switch sw whose city d is in dsts, exactly one link
\* src -> d at the cheapest public cost for each d in dsts joined to src by
\* a public link, and nothing else.
C22_HelperLinks ==
    HelpersGenerated =>
        LET types == {demand[i].demand_type : i \in 1..Len(demand)}
            wanted == UNION {HelpersWanted(t) : t \in types}
            emitted(i) == <<helper_df[i].start, helper_df[i].end, helper_df[i].cost,
                            helper_df[i].link_type>>
        IN  /\ {emitted(i) : i \in 1..Len(helper_df)} = wanted
            /\ Len(helper_df) = Cardinality(wanted)

\* two traffic types, a source city with two switches, and a city pair
\* joined by public links of different costs
C22_Witness ==
    /\ HelpersGenerated
    /\ Cardinality({demand[i].demand_type : i \in 1..Len(demand)}) = 2
    /\ Cardinality({sw \in CitySwitches : CityOf(sw) = demand[1].start}) = 2
    /\ Cardinality(PublicCosts(demand[1].start, demand[1].end)) = 2
    /\ Len(helper_df) > 6

\* merge_link_components has returned full_map
Merged == pc = "lp_primitives"

\* the public or helper link `given` as it stands in the merged list,
\* its cost raised by `added`
Neutralised(given, added) ==
    [given EXCEPT !.cost = given.cost + added, !.bandwidth = 0,
                  !.operator1 = ZeroOp, !.operator2 = ZeroOp,
                  !.uptime = 10000, !.shared = 0]

\* the merged list is private_df unchanged, then the public links with the
\* penalty on their cost, then the helper links without it, each group in
\* its order and with bandwidth 0, operators "0", uptime 1, shared 0
MergedInOrder ==
    /\ Len(full_map) = Len(private_df) + Len(public_df) + Len(helper_df)
    /\ \A i \in 1..Len(private_df) : full_map[i] = private_df[i]
    /\ \A i \in 1..Len(public_df) :
          full_map[Len(private_df) + i] = Neutralised(public_df[i], hybrid_penalty)
    /\ \A i \in 1..Len(helper_df) :
          full_map[Len(private_df) + Len(public_df) + i] = Neutralised(helper_df[i], 0)

\* C21: merge_link_components returns the private links unchanged and
\* first, then the public links with cost + hybrid_penalty, then the helper
\* links with their cost, the public and helper links with bandwidth 0,
\* operators "0", uptime 1 and shared 0; so the links with operator1 other
\* than "0" form a prefix of the merged list.
C21_MergeOrderAndPrefix ==
    Merged =>
        /\ MergedInOrder
        /\ \A i, j \in 1..Len(full_map) :
              (i < j /\ full_map[j].operator1 # ZeroOp) => full_map[i].operator1 # ZeroOp

\* the first part of C21 alone
C21_MergeOrder == Merged => MergedInOrder

\* private, public and helper links were merged
C21_Witness ==
    /\ Merged
    /\ Len(private_df) > 0 /\ Len(public_df) > 0 /\ Len(helper_df) > 0
    /\ hybrid_penalty > 0

----------------------------------------------------------------------------
(* Properties of lp_primitives (SpecPrimitives) *)

\* lp_primitives has returned
PrimitivesBuilt == pc = "solve_coalition_values" \/ (pc = "done" /\ primitives # <<>>)

\* the positions of the private links in the link map that carry shared
\* id s, and the first of them
GroupLinks(s) == {i \in 1..Len(private_df) : full_map[i].shared = s}

FirstOfGroup(s) == CHOOSE i \in GroupLinks(s) : \A j \in GroupLinks(s) : i <= j

\* the shared ids 1 .. K of the private links
GroupIds == {s \in 1..Len(full_map) : GroupLinks(s) # {}}

\* C23: for every shared id s in 1..K the capacity b_ub[s - 1] is the
\* bandwidth of the first private link, in link-map order, that carries s.
C23_CapacityOfFirstLink ==
    PrimitivesBuilt =>
        \A s \in GroupIds :
            /\ s <= Len(primitives.b_ub)
            /\ primitives.b_ub[s] = decimal_to_f64(full_map[FirstOfGroup(s)].bandwidth)

\* C24: the bandwidth row of shared id s is tagged with the two operators
\* of the first private link, in link-map order, that carries s.
C24_RowTagsOfFirstLink ==
    PrimitivesBuilt =>
        \A s \in GroupIds :
            /\ s <= Len(primitives.row_index1)
            /\ s <= Len(primitives.row_index2)
            /\ primitives.row_index1[s] = full_map[FirstOfGroup(s)].operator1
            /\ primitives.row_index2[s] = full_map[FirstOfGroup(s)].operator2

\* the shapes of the LP primitives agree
ShapesConsistent(p) ==
    /\ Len(p.col_index1) = Len(p.col_index2)
    /\ Len(p.col_index1) = Len(p.cost)
    /\ Len(p.col_index1) = p.a_eq.ncols
    /\ Len(p.col_index1) = p.a_ub.ncols
    /\ Len(p.row_index1) = Len(p.row_index2)
    /\ Len(p.row_index1) = Len(p.b_ub)
    /\ Len(p.row_index1) = p.a_ub.nrows
    /\ Len(p.b_eq) = p.a_eq.nrows
    /\ Len(p.b_eq) = Len(build_node_index(full_map, demand))
                        * Len(unique_types(demand))

\* some private link names the reserved operator "0" as its first operator
ReservedOperatorGiven ==
    \E i \in 1..Len(private_links) : private_links[i].operator1 = ZeroOp

\* C25: the shapes of the LP primitives are consistent: the column tags, the
\* cost vector and the columns of A_eq and A_ub have one length; the row
\* tags, b_ub and the rows of A_ub have one length; b_eq has as many
\* entries as A_eq has rows, the number of nodes times the number of types.
C25_ShapesConsistent == PrimitivesBuilt => ShapesConsistent(primitives)

\* the shapes are consistent whenever there is a demand and no private link
\* names operator "0"
C25_ShapesOfOrdinaryInputs ==
    (PrimitivesBuilt /\ ~ReservedOperatorGiven /\ demand # <<>>)
        => ShapesConsistent(primitives)

C25_Witness ==
    /\ PrimitivesBuilt /\ ~ReservedOperatorGiven
    /\ Len(primitives.b_ub) >= 3
    /\ Len(unique_types(demand)) = 2

\* the link of column k (0-based) of the primitives, as a position in the
\* link map
LinkOfColumn(k) ==
    LET keep == get_valid_columns(full_map, unique_types(demand), Len(full_map))
    IN  (keep[k + 1] % Len(full_map)) + 1

\* the coalition LPs have been assembled
LpsAssembled == pc = "compute_expected_values" /\ DOMAIN lp_handed # {}

\* C30: capacity is never lost under coalition restriction: for every
\* coalition and every private-link variable kept for it whose link has
\* shared id g, the bandwidth row of g is kept too, also when the links of
\* the group belong to different operators.
C30_CapacityRowsKept ==
    LpsAssembled =>
        \A c \in DOMAIN lp_handed :
            \A k \in lp_handed[c].cols :
                LET i == LinkOfColumn(k)
                IN  (i <= Len(private_df) /\ full_map[i].shared > 0)
                        => (full_map[i].shared - 1) \in lp_handed[c].ub_rows

\* the groups of the private links each belong to one pair of operators
GroupsOfOneOwner ==
    \A i, j \in 1..Len(private_df) :
        private_df[i].shared = private_df[j].shared
            => /\ private_df[i].operator1 = private_df[j].operator1
               /\ private_df[i].operator2 = private_df[j].operator2

\* the rows are kept for groups that each have one owner
C30_CapacityRowsOfOneOwner ==
    (LpsAssembled /\ GroupsOfOneOwner /\ ~ReservedOperatorGiven)
        => \A c \in DOMAIN lp_handed :
               \A k \in lp_handed[c].cols :
                   LET i == LinkOfColumn(k)
                   IN  (i <= Len(private_df) /\ full_map[i].shared > 0)
                           => (full_map[i].shared - 1) \in lp_handed[c].ub_rows

----------------------------------------------------------------------------
(* Properties of consolidate_demand (SpecConsolidate) *)

\* consolidate_demand has returned
Consolidated == pc = "consolidated"

\* the positions of the multicast demands in the result
MulticastRows ==
    {i \in 1..Len(result.demands) : result.demands[i].multicast}

\* the multicast demands that were given a kind other than their own
FreshRows ==
    {i \in MulticastRows : result.demands[i].kind # result.demands[i].original}

----------------------------------------------------------------------------
(* Properties of solve_coalition_values (SpecSolve) *)

\* solve_coalition_values has returned
Solved == pc = "compute_expected_values"

\* solve_single_coalition returns None on the selection of coalition c
SolverFails(c) ==
    LET masks == get_coalition_masks(get_coalition_subset(operators, c), primitives)
    IN  solve_single_coalition(primitives, masks[1], masks[2], oracle,
                               FailingMasks(operators, primitives, oracle)) = <<>>

\* C8: a coalition whose solve fails is recorded with the value -inf, and
\* solve_coalition_values returns Ok.
C8_FailureRecordedAsNegInf ==
    Solved => \A c \in lp_solved : SolverFails(c) => svalue[c] = NegInf

EmptyCoalitionOutcome ==
    IF SolverFails(0) THEN NegInf
    ELSE SolverOptimum(primitives,
                       get_coalition_masks(<<>>, primitives)[2], oracle)

ValidTags(c) ==
    {ZeroOp} \cup {operators[i + 1] : i \in {b \in 0..(Len(operators) - 1) : Bit(c, b) = 1}}

\* the columns of the primitives with both tags in T (0-based)
ColumnsTagged(T) ==
    {k - 1 : k \in {j \in 1..Len(primitives.col_index1) :
        primitives.col_index1[j] \in T /\ primitives.col_index2[j] \in T}}

\* the bandwidth rows of the primitives with both tags in T (0-based)
RowsTagged(T) ==
    {k - 1 : k \in {j \in 1..Min(primitives.a_ub.nrows, Len(primitives.row_index1)) :
        primitives.row_index1[j] \in T /\ primitives.row_index2[j] \in T}}

\* C17: the LP of coalition c given to the solver has exactly the variables
\* whose two column tags are operators of c or "0", exactly the bandwidth
\* rows whose two row tags are operators of c or "0", and every equality
\* (flow conservation) row.
C17_CoalitionRestriction ==
    Solved =>
        /\ \A c \in lp_solved :
              IF ColumnsTagged(ValidTags(c)) = {}
              THEN c \notin DOMAIN lp_handed
              ELSE /\ c \in DOMAIN lp_handed
                   /\ lp_handed[c].cols = ColumnsTagged(ValidTags(c))
                   /\ lp_handed[c].ub_rows = RowsTagged(ValidTags(c))
                   /\ lp_handed[c].eq_rows = 0..(primitives.a_eq.nrows - 1)

\* a coalition of one operator whose LP leaves out a private column and a
\* bandwidth row and keeps others
C17_Witness ==
    /\ Solved
    /\ 1 \in DOMAIN lp_handed
    /\ lp_handed[1].cols # ColumnsTagged({ZeroOp})
    /\ lp_handed[1].cols # 0..(Len(primitives.col_index1) - 1)
    /\ lp_handed[1].ub_rows # {}
    /\ lp_handed[1].ub_rows # 0..(primitives.a_ub.nrows - 1)
    /\ lp_handed[1].eq_rows # {}

\* the number of coalitions of k out of n operators
Binomial(n, k) == factorial(n) \div (factorial(k) * factorial(n - k))

\* the coalitions of size k solve_single_coalition ran for
SolvedOfSize(k) == {c \in lp_solved : PopCount(c, Len(operators)) = k}

\* the outcome of the solve of coalition c
SolveOutcome(c) ==
    SolveCoalition(operators, primitives, oracle,
                   FailingMasks(operators, primitives, oracle), c)

\* some coalition of size k was solved with success
SolvedWithSuccess(k) == \E c \in SolvedOfSize(k) : ~SolverFails(c)

\* the arithmetic mean of the values of the coalitions of size k that were
\* solved with success
MeanOfSolved(k) ==
    LET n_ops == Len(operators)
        failing_masks == FailingMasks(operators, primitives, oracle)
        outcome == Evaluated([i \in 1..NCoal(n_ops) |->
                       IF PopCount(i - 1, n_ops) = k /\ i - 1 \in lp_solved
                       THEN SolveCoalition(operators, primitives, oracle,
                                           failing_masks, i - 1)
                       ELSE NegInf])
        known == SelectSeq([i \in 1..NCoal(n_ops) |-> i - 1],
                           LAMBDA c : outcome[c + 1] # NegInf)
    IN  FDiv(FSumSeq([j \in 1..Len(known) |-> outcome[known[j] + 1]]),
             FInt(Len(known)))

\* the coalitions the sampled path drew for size k, in the order of the
\* draws of the generator seeded with 42 + k
DrawnForSize(k) ==
    LET n_ops == Len(operators)
        of_size == SelectSeq([i \in 1..NCoal(n_ops) |-> i - 1],
                             LAMBDA c : PopCount(c, n_ops) = k)
    IN  SampleWithoutReplacement(of_size, 0,
                                 Min(samples_per_size(n_ops), Len(of_size)),
                                 42 + k, oracle.rng)

C26_WitnessExact ==
    /\ Solved
    /\ Len(operators) = 2
    /\ lp_solved = 0..3
    /\ IsFinite(svalue[3])

\* C27: on the sampled path as on the exact path a coalition whose LP was
\* solved keeps the outcome of its own solve, -inf when the solve did not
\* succeed; only the coalitions that were never solved are filled with the
\* mean of their size.
C27_SolvedKeepsItsOutcome ==
    Solved =>
        \A c \in lp_solved :
            /\ svalue[c] = SolveOutcome(c)
            /\ SolveOutcome(c) = NegInf => ~IsFinite(svalue[c])

\* on the exact path every coalition keeps the outcome of its solve
C27_ExactKeepsItsOutcome ==
    (Solved /\ Len(operators) < SamplingThreshold) =>
        \A c \in lp_solved : svalue[c] = SolveOutcome(c)

\* C28: after solve_coalition_values size[c] is the number of operators of
\* coalition c, for every c, on the sequential, the parallel and the
\* sampled path and whatever the outcomes of the solver, so that
\* factorials[size[c] - 1] is defined for every coalition with an operator.
C28_SizeIsPopCount ==
    Solved =>
        \A c \in 0..(NCoal(Len(operators)) - 1) :
            /\ c \in DOMAIN size
            /\ size[c] = PopCount(c, Len(operators))
            /\ c > 0 => size[c] - 1 >= 0

\* the sizes are the numbers of operators on the paths that solve every
\* coalition
C28_SizeIsPopCountExact ==
    (Solved /\ Len(operators) < SamplingThreshold) =>
        \A c \in 0..(NCoal(Len(operators)) - 1) :
            size[c] = PopCount(c, Len(operators))

----------------------------------------------------------------------------
(* Properties under renaming of the operators (SpecRelabel) *)

\* the name operator "A" is given: it sorts behind every other name
RenamedTo == OpName(20)

\* the operator name after the renaming
NewName(op) == IF op = OpName(0) THEN RenamedTo ELSE op

\* the Shapley values (before rounding) of the run on the renamed links,
\* with the same solver and generator, and the operators of that run.
\* operator_uptime is 1 in these runs: the expected values are the
\* coalition values
RenamedRun ==
    LET links == Renamed(private_links, OpName(0), RenamedTo)
        ops == enumerate_operators(links)
        bm == generate_coalition_bitmap(Len(ops))
        prim == lp_primitives(
                    merge_link_components(prepare_private_links(links), public_df,
                                          helper_df, hybrid_penalty),
                    demand, demand_multiplier)
        r == solve_coalition_values(ops, bm, prim, oracle)
    IN  [operators |-> ops,
         shapley |-> ShapleyContributions(r.svalue, r.size, Len(ops))]

\* coalition c with operators j and k (bit positions) exchanged
Exchanged(c, j, k) ==
    c - Bit(c, j) * Pow(2, j) - Bit(c, k) * Pow(2, k)
      + Bit(c, j) * Pow(2, k) + Bit(c, k) * Pow(2, j)

\* C13: renaming the operators, which changes their sorted order and their
\* bit positions, leaves each operator's Shapley value unchanged, and two
\* operators whose exchange leaves the coalition values unchanged receive
\* the same value; for every number of operators, those of the sampled
\* path included.
C13_RelabelingInvariance ==
    (Solved /\ oracle.failing = {} /\ operator_uptime = 10000) =>
        LET n == Len(operators)
            \* entry i is the value of operator i (held 1-based)
            phi == Evaluated([i \in 1..n |->
                       ShapleyContributions(svalue, size, n)[i - 1]])
            renamed == RenamedRun
            renamed_ops == Evaluated(renamed.operators)
            renamed_phi == Evaluated([i \in 1..Len(renamed_ops) |->
                               renamed.shapley[i - 1]])
            position(name) ==
                CHOOSE i \in 1..Len(renamed_ops) : renamed_ops[i] = name
        IN  /\ Len(renamed_ops) = n
            /\ \A i \in 1..n :
                  renamed_phi[position(NewName(operators[i]))] = phi[i]
            /\ \A j, k \in 0..(n - 1) :
                  (\A c \in Coalitions(n) : svalue[Exchanged(c, j, k)] = svalue[c])
                      => phi[j + 1] = phi[k + 1]

\* the same below the sampling threshold
C13_RelabelingInvarianceExact ==
    Len(operators) < SamplingThreshold => C13_RelabelingInvariance

\* three operators, the first owning more than the others and moved from
\* the first to the last position by the renaming
C13_WitnessExact ==
    /\ Solved
    /\ oracle.failing = {}
    /\ oracle.game = "count"
    /\ Len(operators) = 3
    /\ svalue[1] # svalue[2]
    /\ RenamedRun.operators[3] = RenamedTo
    /\ RenamedRun.operators[1] = operators[2]

----------------------------------------------------------------------------
(* Properties of the parallel coalition solves (SpecWorkers) *)

\* the coalition indices the finished workers have returned entries for
\* (sampled path), with repetitions
ReturnedIndices ==
    LET lists == [w \in 1..Len(par_results) |->
                     IF par_results[w] = <<>> THEN <<>>
                     ELSE [j \in 1..Len(par_results[w][1]) |-> par_results[w][1][j][1]]]
    IN  Flatten(lists, 1, Len(lists))

\* C14: the values and sizes solve_coalition_values returns do not depend on
\* the order in which the workers run or finish: whatever the order, the
\* result is the one of the coalition-by-coalition computation, every
\* position of the collected Vec holds the item of its own worker, every
\* coalition index carries the result of its own solve, and no index is
\* returned by two workers.
C14_SchedulingIndependence ==
    /\ (pc = "par_iter" /\ Len(operators) < SamplingThreshold) =>
          \A w \in 1..Len(par_results) :
              par_results[w] # <<>> =>
                par_results[w][1] = WorkerItem(operators, bitmap, primitives, oracle, w)
    /\ (pc = "par_iter" /\ Len(operators) >= SamplingThreshold) =>
          /\ Cardinality(Range(ReturnedIndices)) = Len(ReturnedIndices)
          /\ \A w \in 1..Len(par_results) :
                par_results[w] # <<>> =>
                  \A j \in 1..Len(par_results[w][1]) :
                      /\ par_results[w][1][j][3] = w
                      /\ PopCount(par_results[w][1][j][1], Len(operators)) = w
    /\ pc = "compute_expected_values" =>
          /\ \A w \in 1..Len(par_results) :
                par_results[w] = <<WorkerItem(operators, bitmap, primitives, oracle, w)>>
          /\ LET r == solve_coalition_values(operators, bitmap, primitives, oracle)
             IN  /\ svalue = r.svalue
                 /\ size = r.size

\* the workers of the parallel branch finished with a later coalition
\* ahead of an earlier one
C14_Witness ==
    /\ pc = "par_iter"
    /\ Len(operators) = 3
    /\ par_results[1] = <<>>
    /\ par_results[8] # <<>>
    /\ par_results[4] # <<>>
    /\ par_results[8][1][1] # par_results[4][1][1]

\* the workers of the sampled path finished, the largest size first, and
\* the values were written
C14_WitnessSampled ==
    /\ pc = "compute_expected_values"
    /\ Len(operators) = SamplingThreshold
    /\ Len(par_results) = SamplingThreshold - 1
    /\ \E c \in DOMAIN svalue : c \notin lp_solved /\ size[c] > 0

----------------------------------------------------------------------------
(* Properties of prepare_private_links and compact_shared_ids (SpecPrepare) *)

\* prepare_private_links has returned private_df
Prepared == pc = "prepare_public_links"

\* the forward and the reverse copy of input link i in private_df
ForwardCopy(i) == private_df[2 * i - 1]

ReverseCopy(i) == private_df[2 * i]

\* C18: prepare_private_links on n links returns 2n links in input order,
\* the forward copy of a link followed by its reverse copy with start and
\* end swapped; both copies have bandwidth = bandwidth x uptime and
\* link_type 0, the input's cost and operator1, and operator1 for operator2
\* exactly when the input's operator2 was empty or "0".
C18_ForwardAndReverseCopies ==
    Prepared =>
        /\ Len(private_df) = 2 * Len(private_links)
        /\ \A i \in 1..Len(private_links) :
              LET l == private_links[i]
              IN  /\ ForwardCopy(i).start = l.start /\ ForwardCopy(i).end = l.end
                  /\ ReverseCopy(i).start = l.end /\ ReverseCopy(i).end = l.start
                  /\ \A o \in {ForwardCopy(i), ReverseCopy(i)} :
                        /\ o.bandwidth * 10000 = l.bandwidth * l.uptime
                        /\ o.link_type = 0
                        /\ o.cost = l.cost
                        /\ o.operator1 = l.operator1
                        /\ o.operator2 = IF l.operator2 \in {<<>>, ZeroOp}
                                         THEN l.operator1 ELSE l.operator2

\* two links, one derated by its uptime with its empty second operator
\* filled and its link type reset, one keeping its second operator
C18_Witness ==
    /\ Prepared
    /\ Len(private_links) = 2
    /\ private_links[1].operator2 = <<>> /\ private_links[1].link_type = 1
    /\ private_links[1].operator1 # ZeroOp
    /\ ForwardCopy(1).bandwidth < private_links[1].bandwidth
    /\ private_links[2].operator2 = OpName(1)
    /\ ReverseCopy(2).operator2 = OpName(1)
    /\ ReverseCopy(2).start # ForwardCopy(2).start

\* C19: after prepare_private_links the forward and the reverse copy of
\* every input link carry different shared ids, whatever the input shared
\* ids; two forward copies share an id exactly when their input links had
\* the same positive shared id, and so do two reverse copies.
C19_DirectionsHaveDistinctIds ==
    Prepared =>
        /\ \A i \in 1..Len(private_links) :
              ForwardCopy(i).shared # ReverseCopy(i).shared
        /\ \A i, j \in 1..Len(private_links) :
              i # j =>
                LET same_pool == /\ private_links[i].shared > 0
                                 /\ private_links[i].shared = private_links[j].shared
                IN  /\ (ForwardCopy(i).shared = ForwardCopy(j).shared) <=> same_pool
                    /\ (ReverseCopy(i).shared = ReverseCopy(j).shared) <=> same_pool

\* compact_shared_ids has run on private_links and left private_df
Compacted == pc = "compacted"

\* the positive shared ids of a list of links
PositiveIds(links) == {links[i].shared : i \in 1..Len(links)} \ {0}

\* C20: after compact_shared_ids every private link that had shared = 0 has
\* an id of its own, the positive ids in use are exactly 1 .. K, and the
\* renumbering keeps the order of the old ids (equal ids stay equal,
\* different ids stay different).
C20_SharedIdCompaction ==
    Compacted =>
        /\ Len(private_df) = Len(private_links)
        /\ \A i \in 1..Len(private_links) :
              private_links[i].shared = 0 =>
                /\ private_df[i].shared > 0
                /\ \A j \in 1..Len(private_links) :
                      j # i => private_df[j].shared # private_df[i].shared
        /\ PositiveIds(private_df) = 1..Cardinality(PositiveIds(private_df))
        /\ \A i, j \in 1..Len(private_links) :
              (private_links[i].shared > 0 /\ private_links[j].shared > 0) =>
                /\ private_df[i].shared > 0 /\ private_df[j].shared > 0
                /\ (private_links[i].shared < private_links[j].shared)
                     <=> (private_df[i].shared < private_df[j].shared)

----------------------------------------------------------------------------
(* Properties of the aggregator and the reweighter (SpecShapley) *)

\* compute_expected_values has returned
Reweighted == pc \in {"calculate_shapley_values", "done"}

\* C11: at operator_uptime = 1 compute_expected_values returns the coalition
\* values unchanged, and the Shapley values are those Shapley::compute gets
\* with its short cut at uptime 1 (the direct formula on the raw values).
C11_IdentityAtFullUptime ==
    (Reweighted /\ operator_uptime = 10000) =>
        /\ evalue = svalue
        /\ Succeeded =>
              shapley = compute_shapley_values(
                            Shapley_expected_values(svalue, Len(operators), FInt(1)),
                            Len(operators))

\* every coalition value is finite
AllValuesFinite == \A c \in Coalitions(Len(operators)) : IsFinite(svalue[c])

\* the subsets of coalition c
Subcoalitions(c) ==
    {t \in Coalitions(Len(operators)) : IsSubmask(t, c, Len(operators))}

\* the expectation of v over independent outages of the operators of c, at
\* uptime u: the sum over T inside c of u^|T| (1-u)^(|c|-|T|) v(T)
ExpectedOverOutages(c, u) ==
    LET n == Len(operators)
        ts == SortedSeq(Subcoalitions(c))
    IN  FSumSeq([j \in 1..Len(ts) |->
            FMul(FMul(PowI(u, PopCount(ts[j], n)),
                      PowI(FSub(FInt(1), u), PopCount(c, n) - PopCount(ts[j], n))),
                 svalue[ts[j]])])

\* C15: for finite coalition values, compute_expected_values (of
\* coalition_computation.rs and of shapley.rs) returns for every coalition S
\* the sum over T inside S of u^|T| (1-u)^(|S|-|T|) v(T); E[v](0) = v(0).
C15_ExpectationOverOutages ==
    (Reweighted /\ AllValuesFinite) =>
        LET u == decimal_to_f64(operator_uptime)
            n == Len(operators)
        IN  /\ \A c \in Coalitions(n) : evalue[c] = ExpectedOverOutages(c, u)
            /\ evalue[0] = svalue[0]
            /\ Shapley_compute_expected_values(svalue, n, u) = evalue

\* the test's vector at uptime 0.9: 100, 118, 145, 187.3
C15_Witness ==
    /\ Reweighted
    /\ operator_uptime = TestUptime
    /\ svalue = TestValues
    /\ evalue[0] = FInt(100) /\ evalue[1] = FInt(118)
    /\ evalue[2] = FInt(145) /\ evalue[3] = Fin(1873, 10)

\* operator k never changes the value of a coalition it joins
NullOperator(k) ==
    \A c \in DOMAIN svalue : Bit(c, k) = 0 => svalue[c + Pow(2, k)] = svalue[c]

\* C12: an operator k with v(S + k) = v(S) for every coalition S without k
\* (all values finite) has the Shapley value 0, at every uptime in (0, 1].
C12_NullOperator ==
    (Succeeded /\ AllValuesFinite) =>
        \A k \in 0..(Len(operators) - 1) : NullOperator(k) => shapley[k] = FInt(0)

\* a null operator next to one that is paid, at an uptime below 1
C12_Witness ==
    /\ Succeeded
    /\ AllValuesFinite
    /\ operator_uptime < 10000
    /\ Len(operators) = NOps
    /\ NullOperator(1)
    /\ shapley[1] = FInt(0)
    /\ shapley[0] # FInt(0)

\* the unsolved coalitions inside coalition c that the outages of c's
\* operators reach with positive probability at uptime u
UnsolvedInside(c, u) ==
    {t \in Subcoalitions(c) :
        /\ svalue[t] = NegInf
        /\ (t = c \/ FGt(FInt(1), u))}

\* C16: a coalition value -inf propagates. E[v](S) is -inf when S contains
\* an unsolved coalition of positive probability, it is the expectation of
\* the finite values when every coalition inside S is solved, and the
\* operators whose Shapley value comes out negative get the percentage 0.
C16_NegInfPropagates ==
    /\ Reweighted =>
          \A c \in Coalitions(Len(operators)) :
              LET u == decimal_to_f64(operator_uptime)
              IN  IF UnsolvedInside(c, u) # {}
                  THEN evalue[c] = NegInf
                  ELSE (\A t \in Subcoalitions(c) : IsFinite(svalue[t]))
                          => evalue[c] = ExpectedOverOutages(c, u)
    /\ Succeeded =>
          \A k \in 0..(Len(operators) - 1) :
              FGt(FInt(0), shapley[k]) => result.values[k + 1].percent = 0

\* the sum of the reported percentages, in units of 1/10000
PercentUnits ==
    SumSeq([i \in 1..Len(result.values) |-> result.values[i].percent])

SomePositiveShapley ==
    \E k \in 0..(Len(operators) - 1) : FGt(shapley[k], FInt(0))

\* C1: on success the reported percentages, each rounded to 4 decimal
\* places, sum to exactly 1 when some Shapley value is positive, and are all
\* 0 otherwise.
C1_PercentSumsToOne ==
    Succeeded =>
        IF SomePositiveShapley
        THEN PercentUnits = 10000
        ELSE \A i \in 1..Len(result.values) : result.values[i].percent = 0

\* C2: on success every reported percentage is non-negative and at most 1.
C2_PercentInUnitInterval ==
    Succeeded =>
        \A i \in 1..Len(result.values) :
            /\ result.values[i].percent >= 0
            /\ result.values[i].percent <= 10000

\* a negative Shapley value was clipped while another operator's is positive
C2_Witness ==
    /\ Succeeded
    /\ SomePositiveShapley
    /\ \E k \in 0..(Len(operators) - 1) :
        /\ FGt(FInt(0), shapley[k])
        /\ result.values[k + 1].percent = 0

\* C10: efficiency. With operator_uptime = 1 and every coalition value
\* finite, the unrounded Shapley values of n >= 1 operators sum to
\* v(grand coalition) - v(empty coalition).
C10_Efficiency ==
    (/\ Succeeded
     /\ Len(operators) >= 1
     /\ operator_uptime = 10000
     /\ AllValuesFinite)
    => FSumSeq([i \in 1..Len(operators) |-> shapley[i - 1]])
         = FSub(svalue[NCoal(Len(operators)) - 1], svalue[0])

\* NOps operators with different Shapley values and a non-zero sum
C10_Witness ==
    /\ Succeeded
    /\ Len(operators) = NOps
    /\ operator_uptime = 10000
    /\ AllValuesFinite
    /\ svalue[NCoal(NOps) - 1] # svalue[0]
    /\ \E j, k \in 0..(NOps - 1) : shapley[j] # shapley[k]

====
